---- MODULE Spec2Model ----
(***************************************************************************)
(* Terrain data and cache management core of terra.                        *)
(*                                                                         *)
(*   SpecTileCache  graph/mod.rs  TileCache::insert and its slot fences    *)
(*   SpecFence      graph/mod.rs  Fence::is_done under device statuses     *)
(*   SpecQuadTree   terrain/quadtree/mod.rs  QuadTree::update_visibility   *)
(*                                                                         *)
(* Option<T> is modelled as a sequence: None is <<>>, Some(v) is <<v>>.    *)
(* Indices are 0-based as in the source; sequence accesses add 1.          *)
(***************************************************************************)
EXTENDS Integers, Sequences, FiniteSets, TLC

VARIABLES
    \* ---- graph/mod.rs: TileCache<K, B> ----
    size,            \* TileCache.size: the capacity N
    contents,        \* TileCache.contents: Vec<(K, Fence)>
    sector_indices,  \* TileCache.sector_indices: LinkedHashMap<K, usize>, front = oldest
    inflight,        \* slots whose upload_image the device has not completed yet
    lastOp,          \* the last call made on the cache and what it returned
    recency,         \* resident keys by last touch (oldest first), as the LRU contract counts touches
    \* ---- graph/mod.rs: Fence<B> ----
    fence,           \* Fence.0: Option<B::Fence>
    fenceLog,        \* the polls made so far: device status and is_done's answer
    \* ---- terrain/quadtree/mod.rs: QuadTree ----
    nodes,           \* QuadTree.nodes: Vec<Node>, the root at index 0
    visible_nodes,   \* QuadTree.visible_nodes: the render list
    tile_cache_layers, \* per layer, the NodeIds for which that layer's TileCache answers contains
    tentative,       \* the visible flags as phase A of the last update_visibility left them
    visitedA,        \* the NodeIds the phase A visitor was called on, in call order
    qtState,         \* "new", "updated" (update_visibility returned), "cached", "changed", "panicked"
    cache_calls,     \* the calls the last update_cache made on the layer caches, in order
    \* RasterCache
    rc_size,         \* capacity handed to LruCache::new
    rc_rs,           \* source.raster_size()
    rc_checked,      \* TRUE: the build panics on integer overflow; FALSE: it wraps
    rc_holes,        \* holes: HashSet<(i16, i16)>
    rc_rasters,      \* rasters: the resident keys, least recently used first
    rc_failed,       \* history: the keys whose load has failed
    rc_evicted,      \* history: the keys evicted from rasters and not asked for since
    rc_last,         \* history: the last get
    rc_state,        \* "new", "returned" (the last get returned), "panicked"
    \* Raster
    raster,          \* the raster queried: width, height, bands, cell_size, values
    rq,              \* history: the last query and what it returned
    \* DigitalElevationModelCache
    dem_source,      \* source: "Usgs30m", "Usgs10m" or "Srtm30m"
    dem_size,        \* capacity handed to LruCache::new
    dem_holes,       \* holes: HashSet<(i16, i16)>
    dem_dems,        \* dems: the resident [key, dem] entries, least recently used first
    dem_last,        \* history: the last get_elevation
    dem_state,       \* "new", "returned", "panicked"
    \* Graph
    g_config,        \* config.nodes of the graph file: node name -> node
    g_side,          \* config.side_length_sectors
    g_result,        \* what Graph::from_file made of it
    \* Layer::compute_sector_index
    sec_checked,     \* TRUE: the build panics on integer overflow; FALSE: it wraps
    sec_last,        \* history: the last call and what it returned
    sec_bytes,       \* desc.sector_bytes of the layer
    sec_side,        \* config.side_length_sectors
    \* QuadTree::breadth_first
    bf_st,           \* the quadtree the traversal runs on, the visitor and its calls so far
    bf_pending,      \* pending: VecDeque<NodeId>, front first
    bf_pc            \* "start", "loop" (at the head of the while loop), "done"

cacheVars == <<size, contents, sector_indices, inflight, lastOp, recency>>
fenceVars == <<fence, fenceLog>>
quadVars == <<nodes, visible_nodes, tile_cache_layers, tentative, visitedA, qtState>>
cachePassVars == <<cache_calls>>
\* The state of the components modelled after the tile cache, the fence and the
\* visibility pass.
rasterCacheVars == <<rc_size, rc_rs, rc_checked, rc_holes, rc_rasters, rc_failed, rc_evicted, rc_last,
                     rc_state>>
rasterVars == <<raster, rq>>
demVars == <<dem_source, dem_size, dem_holes, dem_dems, dem_last, dem_state>>
graphVars == <<g_config, g_side, g_result>>
sectorVars == <<sec_checked, sec_last, sec_bytes, sec_side>>
bfVars == <<bf_st, bf_pending, bf_pc>>
extVars == <<cachePassVars, rasterCacheVars, rasterVars, demVars, graphVars, sectorVars, bfVars>>
cachePassOthers ==
    <<cacheVars, fenceVars, rasterCacheVars, rasterVars, demVars, graphVars, sectorVars, bfVars>>
rasterCacheOthers ==
    <<cacheVars, fenceVars, quadVars, cachePassVars, rasterVars, demVars, graphVars, sectorVars, bfVars>>
rasterOthers ==
    <<cacheVars, fenceVars, quadVars, cachePassVars, rasterCacheVars, demVars, graphVars,
      sectorVars, bfVars>>
demOthers ==
    <<cacheVars, fenceVars, quadVars, cachePassVars, rasterCacheVars, rasterVars, graphVars,
      sectorVars, bfVars>>
graphOthers ==
    <<cacheVars, fenceVars, quadVars, cachePassVars, rasterCacheVars, rasterVars, demVars,
      sectorVars, bfVars>>
sectorOthers ==
    <<cacheVars, fenceVars, quadVars, cachePassVars, rasterCacheVars, rasterVars, demVars,
      graphVars, bfVars>>
bfOthers ==
    <<cacheVars, fenceVars, quadVars, cachePassVars, rasterCacheVars, rasterVars, demVars,
      graphVars, sectorVars>>
vars == <<size, contents, sector_indices, inflight, lastOp, recency, fence, fenceLog,
          nodes, visible_nodes, tile_cache_layers, tentative, visitedA, qtState,
          cache_calls,
          rc_size, rc_rs, rc_checked, rc_holes, rc_rasters, rc_failed, rc_evicted, rc_last, rc_state,
          raster, rq,
          dem_source, dem_size, dem_holes, dem_dems, dem_last, dem_state,
          g_config, g_side, g_result,
          sec_checked, sec_last, sec_bytes, sec_side,
          bf_st, bf_pending, bf_pc>>

None == <<>>
Some(v) == <<v>>

\* ------------------------------------------------------------------ bounds
MaxSize == 3
NumKeys == 4
MaxPolls == 4

Keys == 1..NumKeys

\* ------------------------------------------------ sequence helpers
RECURSIVE SeqWithout(_, _)
SeqWithout(s, x) ==
    IF s = <<>> THEN <<>>
    ELSE IF Head(s) = x THEN SeqWithout(Tail(s), x)
    ELSE <<Head(s)>> \o SeqWithout(Tail(s), x)

SeqRange(s) == {s[i] : i \in 1..Len(s)}

\* ------------------------------------------------ LinkedHashMap<K, usize>
\* An entry is <<key, value>>; the sequence is the insertion order.
LhmKeys(m) == {m[i][1] : i \in 1..Len(m)}

LhmValue(m, k) == (CHOOSE i \in 1..Len(m) : m[i][1] = k)

\* mutant: the lookup never finds the key
TileCacheGetAlwaysMiss(m, k) == None

\* sector_indices.get(&key): no reordering (get, not get_refresh)
TileCacheGet(m, k) ==
    IF k \in LhmKeys(m) THEN Some(m[LhmValue(m, k)][2]) ELSE None

\* LinkedHashMap::pop_back: removes and returns the LAST (newest) entry
LhmPopBack(m) ==
    [map |-> SubSeq(m, 1, Len(m) - 1), key |-> m[Len(m)][1], value |-> m[Len(m)][2]]

\* LinkedHashMap::insert: an existing key is updated and moved to the back
LhmInsert(m, k, v) ==
    LET rest == SelectSeq(m, LAMBDA e : e[1] # k) IN Append(rest, <<k, v>>)

\* mutant: the capacity test is off by one
IsFullOffByOne(m, sz) == Len(m) = sz + 1

\* self.sector_indices.len() == self.size
IsFull(m, sz) == Len(m) = sz

\* mutant: the index of the pushed slot is taken to be the new length
PushedIndexLen(ct) == Len(ct)

\* self.contents.len() - 1, after the push
PushedIndex(ct) == Len(ct) - 1

\* The whole of TileCache::insert as a function of the cache and the key.
InsertResult(sz, ct, si, key) ==
    LET got == TileCacheGet(si, key) IN
    IF got # None
    THEN [contents |-> ct, sector_indices |-> si, index |-> got[1], hit |-> TRUE,
          evicted |-> None, uploaded |-> FALSE]
    ELSE IF IsFull(si, sz)
    THEN LET popped == LhmPopBack(si)
             index  == popped.value
             ct2    == [ct EXCEPT ![index + 1] = <<key, None>>]
         IN [contents |-> ct2, sector_indices |-> LhmInsert(popped.map, key, index),
             index |-> index, hit |-> FALSE, evicted |-> Some(popped.key),
             uploaded |-> TRUE]
    ELSE LET ct2   == Append(ct, <<key, None>>)
             index == PushedIndex(ct2)
         IN [contents |-> ct2, sector_indices |-> LhmInsert(si, key, index),
             index |-> index, hit |-> FALSE, evicted |-> None, uploaded |-> TRUE]

\* The LRU contract's notion of a touch: admitting or re-requesting a key.
Touch(rec, key, evicted) ==
    LET kept == IF evicted = None THEN rec ELSE SeqWithout(rec, evicted[1])
    IN Append(SeqWithout(kept, key), key)

\* ------------------------------------------------ Fence<B>
DeviceStatus == {"signalled", "unsignalled", "error"}

\* device.get_fence_status(f).ok(): Ok(true), Ok(false), Err(_)
StatusOk(st) == IF st = "error" THEN None ELSE Some(st = "signalled")

\* mutant: a fence that is not signalled is armed again
FenceAfterPollRearm(f, st) ==
    IF st = "signalled" THEN None ELSE Some("fence")

\* the body of is_done: the handle is dropped once the device reports it signalled
FenceAfterPoll(f, st) ==
    LET signalled == IF f = None THEN FALSE
                     ELSE IF StatusOk(st) = None THEN FALSE ELSE StatusOk(st)[1]
    IN IF signalled THEN None ELSE f

\* self.0.is_none()
FenceIsNone(f) == f = None

\* ------------------------------------------------ TileCache actions
Insert(key) ==
    LET r == InsertResult(size, contents, sector_indices, key) IN
    /\ contents' = r.contents
    /\ sector_indices' = r.sector_indices
    /\ inflight' = IF r.uploaded THEN inflight \cup {r.index} ELSE inflight
    /\ lastOp' = [op |-> "insert", key |-> key, index |-> r.index, hit |-> r.hit,
                  evicted |-> r.evicted, uploaded |-> r.uploaded, done |-> FALSE]
    /\ recency' = Touch(recency, key, r.evicted)
    /\ UNCHANGED <<size, fenceVars, quadVars, extVars>>

\* The device finishes the upload into slot i.
UploadCompletes(i) ==
    /\ i \in inflight
    /\ inflight' = inflight \ {i}
    /\ lastOp' = [op |-> "complete", key |-> 0, index |-> 0, hit |-> FALSE,
                  evicted |-> None, uploaded |-> FALSE, done |-> FALSE]
    /\ UNCHANGED <<size, contents, sector_indices, recency, fenceVars, quadVars, extVars>>

\* Fence::is_done on the fence stored in slot i.
PollSlot(i, st) ==
    /\ i \in 0..(Len(contents) - 1)
    /\ LET f2 == FenceAfterPoll(contents[i + 1][2], st) IN
       /\ contents' = [contents EXCEPT ![i + 1] = <<contents[i + 1][1], f2>>]
       /\ lastOp' = [op |-> "is_done", key |-> 0, index |-> 0,
                     hit |-> FALSE, evicted |-> None, uploaded |-> FALSE,
                     done |-> FenceIsNone(f2)]
    /\ UNCHANGED <<size, sector_indices, inflight, recency, fenceVars, quadVars, extVars>>

NoOp == [op |-> "new", key |-> 0, index |-> 0, hit |-> FALSE, evicted |-> None,
         uploaded |-> FALSE, done |-> FALSE]

TileCacheNew(n) ==
    /\ size = n
    /\ contents = <<>>
    /\ sector_indices = <<>>
    /\ inflight = {}
    /\ lastOp = NoOp
    /\ recency = <<>>

FenceIdle == fence = None /\ fenceLog = <<>>

CachePassIdle == cache_calls = <<>>

\* The last get of a cache no get has been made on.
NoGet ==
    [lat |-> 0, lon |-> 0, overflow |-> FALSE, key |-> None, wasHole |-> FALSE,
     wasResident |-> FALSE, wasEvicted |-> FALSE, invoked |-> 0, loadKey |-> None, loadOk |-> FALSE,
     result |-> "none"]

\* RasterCache::new(source, size)
RasterCacheNew(cap, rs, checked) ==
    /\ rc_size = cap
    /\ rc_rs = rs
    /\ rc_checked = checked
    /\ rc_holes = {}
    /\ rc_rasters = <<>>
    /\ rc_failed = {}
    /\ rc_evicted = {}
    /\ rc_last = NoGet
    /\ rc_state = "new"

RasterCacheIdle == RasterCacheNew(1, 1, TRUE)

\* The last query of a raster no query has been made on.
NoQuery ==
    [op |-> "none", dlat |-> 0, dlon |-> 0, band |-> 0, kind |-> "none",
     num |-> 0, den |-> 1, vals |-> <<>>, reads |-> {}]

RasterIdle == raster = <<>> /\ rq = NoQuery

\* The last get_elevation of a cache none has been made on.
NoElevation ==
    [lat |-> 0, lon |-> 0, key |-> <<0, 0>>, loaded |-> FALSE, payload |-> "none",
     parsed |-> FALSE, covered |-> FALSE, result |-> "none"]

\* DigitalElevationModelCache::new(source, size)
DemCacheNew(source, cap) ==
    /\ dem_source = source
    /\ dem_size = cap
    /\ dem_holes = {}
    /\ dem_dems = <<>>
    /\ dem_last = NoElevation
    /\ dem_state = "new"

DemIdle == DemCacheNew("Srtm30m", 1)

\* from_file has not been called.
NoGraph ==
    [status |-> "none", failed |-> "", order |-> <<>>, order_ids |-> <<>>,
     layer_ids |-> <<>>, known |-> <<>>, priority_nodes |-> <<>>, priorities |-> <<>>,
     generated_layers |-> {}, dataset_layers |-> {}, data_files |-> {}]

GraphIdle == g_config = <<>> /\ g_side = 1 /\ g_result = NoGraph

\* compute_sector_index has not been called.
NoIndex == [op |-> "none", sector |-> <<0, 0>>, status |-> "", index |-> 0]

SectorIdle == sec_checked = TRUE /\ sec_last = NoIndex /\ sec_bytes = 1 /\ sec_side = 2

\* breadth_first has not been called on anything.
BfIdle == bf_st = <<>> /\ bf_pending = <<>> /\ bf_pc = "done"

\* The later components before anything has run on them.
ExtIdle ==
    /\ CachePassIdle /\ RasterCacheIdle /\ RasterIdle /\ DemIdle /\ GraphIdle
    /\ SectorIdle /\ BfIdle

QuadIdle ==
    /\ nodes = <<>>
    /\ visible_nodes = <<>>
    /\ tile_cache_layers = <<>>
    /\ tentative = <<>>
    /\ visitedA = <<>>
    /\ qtState = "new"

BaseIdle == TileCacheNew(1) /\ FenceIdle /\ QuadIdle /\ CachePassIdle

RasterCacheOthersIdle == BaseIdle /\ RasterIdle /\ DemIdle /\ GraphIdle /\ SectorIdle /\ BfIdle

RasterOthersIdle == BaseIdle /\ RasterCacheIdle /\ DemIdle /\ GraphIdle /\ SectorIdle /\ BfIdle

DemOthersIdle == BaseIdle /\ RasterCacheIdle /\ RasterIdle /\ GraphIdle /\ SectorIdle /\ BfIdle

GraphOthersIdle == BaseIdle /\ RasterCacheIdle /\ RasterIdle /\ DemIdle /\ SectorIdle /\ BfIdle

SectorOthersIdle ==
    BaseIdle /\ RasterCacheIdle /\ RasterIdle /\ DemIdle /\ GraphIdle /\ BfIdle

BfOthersIdle ==
    BaseIdle /\ RasterCacheIdle /\ RasterIdle /\ DemIdle /\ GraphIdle /\ SectorIdle

InitTileCache == (\E n \in 1..MaxSize : TileCacheNew(n)) /\ FenceIdle /\ QuadIdle /\ ExtIdle

NextTileCache ==
    \/ \E key \in Keys : Insert(key)
    \/ \E i \in 0..(MaxSize - 1) : UploadCompletes(i)
    \/ \E i \in 0..(MaxSize - 1), st \in DeviceStatus : PollSlot(i, st)

SpecTileCache == InitTileCache /\ [][NextTileCache]_vars

\* ------------------------------------------------ Fence actions
IsDone(st) ==
    /\ Len(fenceLog) < MaxPolls
    /\ fence' = FenceAfterPoll(fence, st)
    /\ fenceLog' = Append(fenceLog, [status |-> st, armed |-> fence # None,
                                     done |-> FenceIsNone(fence')])
    /\ UNCHANGED <<cacheVars, quadVars, extVars>>

InitFence ==
    /\ fence \in {None, Some("fence")}
    /\ fenceLog = <<>>
    /\ TileCacheNew(1)
    /\ QuadIdle
    /\ ExtIdle

NextFence == \E st \in DeviceStatus : IsDone(st)

SpecFence == InitFence /\ [][NextFence]_vars

\* ================================================================ QuadTree
NUM_LAYERS == 3

\* Priority::cutoff(), and the two sides of it a node's priority can be on.
Cutoff == 1
Priorities == {Cutoff - 1, Cutoff}

Root == 0

Leaf == <<None, None, None, None>>

\* The node arenas, children by NodeId: a full level of leaves below the root;
\* the same with a child that has a single child of its own; the same with a
\* child that has all four children.
ArenaFlat ==
    << <<Some(1), Some(2), Some(3), Some(4)>>, Leaf, Leaf, Leaf, Leaf >>
ArenaPartial ==
    << <<Some(1), Some(2), Some(3), Some(4)>>,
       <<None, Some(5), None, None>>, Leaf, Leaf, Leaf, Leaf >>
ArenaDeep ==
    << <<Some(1), Some(2), Some(3), Some(4)>>,
       <<Some(5), Some(6), Some(7), Some(8)>>, Leaf, Leaf, Leaf,
       Leaf, Leaf, Leaf, Leaf >>

\* The tiles of an arena as <<node, layer, tile index>>: tile_indices[layer]
\* of the node is Some(tile index), and None where no triple names it.
TileSets ==
    { {},
      {<<0, 0, 0>>},
      {<<1, 0, 1>>},
      {<<0, 0, 0>>, <<1, 1, 1>>},
      {<<1, 0, 0>>, <<1, 1, 0>>},
      {<<0, 0, 0>>, <<1, 0, 1>>, <<2, 0, 2>>},
      {<<0, 1, 1>>, <<1, 0, 3>>},
      {<<4, 2, 2>>, <<1, 2, 0>>} }

DeepTileSets ==
    { {}, {<<1, 0, 0>>, <<5, 0, 0>>}, {<<2, 0, 0>>, <<5, 0, 0>>} }

\* The quadtrees update_visibility is run on: an arena with its tiles.
Setups ==
    ({ArenaFlat, ArenaPartial} \X TileSets) \cup ({ArenaDeep} \X DeepTileSets)

TileIndices(tiles, id) ==
    [layer \in 1..NUM_LAYERS |->
        IF \E t \in tiles : t[1] = id /\ t[2] = layer - 1
        THEN Some((CHOOSE t \in tiles : t[1] = id /\ t[2] = layer - 1)[3])
        ELSE None]

NodeIds(ns) == 0..(Len(ns) - 1)

\* The (layer, node) pairs for which the cache pass can ask for a tile.
HasTile(ns, layer, id) == ns[id + 1].tile_indices[layer + 1] # None

\* tile_cache_layers[i as usize].contains(id); the array has NUM_LAYERS entries
\* and indexing past it panics.
LayerInRange(i) == i < NUM_LAYERS
CacheContains(caches, i, id) == id \in caches[i + 1]

\* tile_indices.iter().filter_map(|i| *i).all(|i| caches[i as usize].contains(id)),
\* from position k on: "true", "false" (all stops at the first miss) or "panic".
RECURSIVE AllTilesContained(_, _, _, _)
AllTilesContained(tis, k, caches, id) ==
    IF k > Len(tis) THEN "true"
    ELSE IF tis[k] = None THEN AllTilesContained(tis, k + 1, caches, id)
    ELSE LET i == tis[k][1] IN
         IF ~LayerInRange(i) THEN "panic"
         ELSE IF ~CacheContains(caches, i, id) THEN "false"
         ELSE AllTilesContained(tis, k + 1, caches, id)

\* priority >= cutoff && all(...): the tiles are looked at only past the cutoff.
PhaseAVisible(n, caches, id) ==
    IF n.priority >= Cutoff THEN AllTilesContained(n.tile_indices, 1, caches, id)
    ELSE "false"

\* mutant: phase A descends whenever the priority reaches the cutoff
PhaseADescendOnPriority(n, vis) == n.priority >= Cutoff

\* the phase A visitor returns the flag it has just stored
PhaseADescend(n, vis) == vis

\* The phase A visitor (first closure of update_visibility).
VisitA(st, caches, id) ==
    LET n == st.nodes[id + 1]
        r == PhaseAVisible(n, caches, id)
    IN IF r = "panic"
       THEN [st |-> [st EXCEPT !.panicked = TRUE, !.log = Append(@, id)],
             descend |-> FALSE]
       ELSE [st |-> [st EXCEPT !.nodes[id + 1].visible = (r = "true"),
                               !.log = Append(@, id)],
             descend |-> PhaseADescend(n, r = "true")]

\* mutant: a missing child counts as visible
ChildVisibleOrMissing(ns, child) ==
    IF child = None THEN TRUE ELSE ns[child[1] + 1].visible

\* match *child { Some(c) => nodes[c].visible, None => false }
ChildVisible(ns, child) ==
    IF child = None THEN FALSE ELSE ns[child[1] + 1].visible

\* The phase B visitor (second closure of update_visibility).
VisitB(st, id) ==
    LET n == st.nodes[id + 1] IN
    IF n.visible
    THEN LET v == ~(\A k \in 1..4 : ChildVisible(st.nodes, n.children[k])) IN
         [st |-> [st EXCEPT !.nodes[id + 1].visible = v,
                            !.visible_nodes = IF v THEN Append(@, id) ELSE @,
                            !.log = Append(@, id)],
          descend |-> TRUE]
    ELSE [st |-> [st EXCEPT !.log = Append(@, id)], descend |-> FALSE]

\* The add_missing calls of one visited node, for the layers from `layer` on.
RECURSIVE AddMissingCalls(_, _, _, _)
AddMissingCalls(n, caches, id, layer) ==
    IF layer >= NUM_LAYERS THEN <<>>
    ELSE (IF n.tile_indices[layer + 1] # None /\ ~CacheContains(caches, layer, id)
          THEN <<[call |-> "add_missing", layer |-> layer, priority |-> n.priority, id |-> id]>>
          ELSE <<>>)
         \o AddMissingCalls(n, caches, id, layer + 1)

\* mutant: the cache pass never stops at a node below the cutoff
CachePassSkipsNever(n) == FALSE

\* if qt.nodes[id].priority < Priority::cutoff() { return false; }
CachePassSkips(n) == n.priority < Cutoff

\* The visitor of update_cache.
VisitCache(st, caches, id) ==
    LET n == st.nodes[id + 1] IN
    IF CachePassSkips(n)
    THEN [st |-> [st EXCEPT !.log = Append(@, id)], descend |-> FALSE]
    ELSE [st |-> [st EXCEPT !.log = Append(@, id),
                            !.calls = @ \o AddMissingCalls(n, caches, id, 0)],
          descend |-> TRUE]

\* Any visitor that leaves the child links alone: what it returns for each
\* node is st.answers.
VisitAny(st, id) ==
    [st |-> [st EXCEPT !.log = Append(@, id)], descend |-> st.answers[id + 1]]

Visit(phase, st, caches, id) ==
    IF phase = "A" THEN VisitA(st, caches, id)
    ELSE IF phase = "B" THEN VisitB(st, id)
    ELSE IF phase = "C" THEN VisitCache(st, caches, id)
    ELSE VisitAny(st, id)

\* for i in 0..4 { if let Some(child) = nodes[id].children[i] { if visit(child) { push_back } } }
RECURSIVE VisitChildren(_, _, _, _, _, _)
VisitChildren(phase, st, caches, pending, id, i) ==
    IF i >= 4 \/ st.panicked THEN [st |-> st, pending |-> pending]
    ELSE LET child == st.nodes[id + 1].children[i + 1] IN
         IF child = None THEN VisitChildren(phase, st, caches, pending, id, i + 1)
         ELSE LET r == Visit(phase, st, caches, child[1]) IN
              VisitChildren(phase, r.st, caches,
                            IF r.descend THEN Append(pending, child[1]) ELSE pending,
                            id, i + 1)

\* mutant: the node taken from the back of pending
PopBack(pending) ==
    [id |-> pending[Len(pending)], rest |-> SubSeq(pending, 1, Len(pending) - 1)]

\* pending.pop_front()
PopFront(pending) == [id |-> Head(pending), rest |-> Tail(pending)]

\* while let Some(id) = pending.pop_front() { ... }
RECURSIVE BfsLoop(_, _, _, _)
BfsLoop(phase, st, caches, pending) ==
    IF pending = <<>> \/ st.panicked THEN st
    ELSE LET p == PopFront(pending)
             r == VisitChildren(phase, st, caches, p.rest, p.id, 0)
         IN BfsLoop(phase, r.st, caches, r.pending)

\* QuadTree::breadth_first with the visitor of the given phase.
BreadthFirst(phase, st, caches) ==
    LET r == Visit(phase, st, caches, Root)
    IN BfsLoop(phase, r.st, caches, IF r.descend THEN <<Root>> ELSE <<>>)

\* mutant: the render list is not cleared
ResetForUpdateKeepList(ns, list) ==
    [nodes |-> [i \in 1..Len(ns) |-> [ns[i] EXCEPT !.visible = FALSE]],
     visible_nodes |-> list, log |-> <<>>, panicked |-> FALSE]

\* self.visible_nodes.clear(); for node in nodes { node.visible = false }
ResetForUpdate(ns, list) ==
    [nodes |-> [i \in 1..Len(ns) |-> [ns[i] EXCEPT !.visible = FALSE]],
     visible_nodes |-> <<>>, log |-> <<>>, panicked |-> FALSE]

\* QuadTree::update_visibility; a panic in phase A leaves what was done so far.
UpdateVisibility ==
    /\ qtState # "panicked"
    /\ \E a \in {BreadthFirst("A", ResetForUpdate(nodes, visible_nodes), tile_cache_layers)} :
       \E b \in {IF a.panicked THEN a
                  ELSE BreadthFirst("B", [a EXCEPT !.log = <<>>], tile_cache_layers)} :
          /\ nodes' = b.nodes
          /\ visible_nodes' = b.visible_nodes
          /\ tentative' = [i \in 1..Len(nodes) |-> a.nodes[i].visible]
          /\ visitedA' = a.log
          /\ qtState' = IF a.panicked THEN "panicked" ELSE "updated"
    /\ UNCHANGED <<tile_cache_layers, cacheVars, fenceVars, extVars>>

\* for cache_layer in tile_cache_layers.iter_mut() { cache_layer.load_missing(..) }
LoadMissingCalls ==
    [k \in 1..NUM_LAYERS |->
        [call |-> "load_missing", layer |-> k - 1, priority |-> 0, id |-> 0]]

\* QuadTree::update_cache: the traversal, then load_missing on every layer cache.
UpdateCache ==
    /\ qtState # "panicked"
    /\ \E c \in {BreadthFirst("C", [nodes |-> nodes, visible_nodes |-> visible_nodes,
                                    log |-> <<>>, panicked |-> FALSE, calls |-> <<>>],
                               tile_cache_layers)} :
          cache_calls' = c.calls \o LoadMissingCalls
    /\ qtState' = "cached"
    /\ UNCHANGED <<nodes, visible_nodes, tile_cache_layers, tentative, visitedA,
                   cachePassOthers>>

\* The fill of node id's tile in a layer completes: the layer's cache now
\* answers contains(id).
TileBecomesResident(layer, id) ==
    /\ qtState # "panicked"
    /\ id \in NodeIds(nodes)
    /\ HasTile(nodes, layer, id)
    /\ id \notin tile_cache_layers[layer + 1]
    /\ tile_cache_layers' = [tile_cache_layers EXCEPT ![layer + 1] = @ \cup {id}]
    /\ qtState' = "changed"
    /\ UNCHANGED <<nodes, visible_nodes, tentative, visitedA, cacheVars, fenceVars, extVars>>

\* The layer's cache evicts node id's tile.
TileEvicted(layer, id) ==
    /\ qtState # "panicked"
    /\ id \in tile_cache_layers[layer + 1]
    /\ tile_cache_layers' = [tile_cache_layers EXCEPT ![layer + 1] = @ \ {id}]
    /\ qtState' = "changed"
    /\ UNCHANGED <<nodes, visible_nodes, tentative, visitedA, cacheVars, fenceVars, extVars>>

\* QuadTree::from_nodes: the arena as given, an empty render list, empty caches.
InitQuadTree ==
    /\ \E setup \in Setups :
         \E prio \in [1..Len(setup[1]) -> Priorities] :
            nodes = [i \in 1..Len(setup[1]) |->
                        [children |-> setup[1][i],
                         tile_indices |-> TileIndices(setup[2], i - 1),
                         priority |-> prio[i],
                         visible |-> FALSE]]
    /\ visible_nodes = <<>>
    /\ tile_cache_layers = [layer \in 1..NUM_LAYERS |-> {}]
    /\ tentative = [i \in 1..Len(nodes) |-> FALSE]
    /\ visitedA = <<>>
    /\ qtState = "new"
    /\ TileCacheNew(1)
    /\ FenceIdle
    /\ ExtIdle

NextQuadTree ==
    \/ UpdateVisibility
    \/ \E layer \in 0..(NUM_LAYERS - 1), id \in NodeIds(nodes) : TileBecomesResident(layer, id)
    \/ \E layer \in 0..(NUM_LAYERS - 1), id \in NodeIds(nodes) : TileEvicted(layer, id)

SpecQuadTree == InitQuadTree /\ [][NextQuadTree]_vars

\* The cache pass on the same quadtrees, between changes of residency.
NextCachePass ==
    \/ UpdateCache
    \/ \E layer \in 0..(NUM_LAYERS - 1), id \in NodeIds(nodes) : TileBecomesResident(layer, id)
    \/ \E layer \in 0..(NUM_LAYERS - 1), id \in NodeIds(nodes) : TileEvicted(layer, id)

SpecCachePass == InitQuadTree /\ [][NextCachePass]_vars

\* ================================================================ QuadTree::breadth_first

\* A root without children, and an arena three levels deep on two branches.
ArenaRoot == << Leaf >>
ArenaTall ==
    << <<Some(1), Some(2), None, None>>,
       <<Some(3), None, None, None>>, <<None, Some(4), None, None>>,
       <<None, None, Some(5), None>>, <<None, None, None, Some(6)>>,
       Leaf, Leaf >>

BfArenas == {ArenaRoot, ArenaFlat, ArenaPartial, ArenaDeep, ArenaTall}

\* let mut pending = VecDeque::new();
\* if visit(self, NodeId::root()) { pending.push_back(NodeId::root()); }
BfStart ==
    /\ bf_pc = "start"
    /\ \E r \in {Visit("V", bf_st, <<>>, Root)} :
          /\ bf_st' = r.st
          /\ bf_pending' = IF r.descend THEN <<Root>> ELSE <<>>
    /\ bf_pc' = "loop"
    /\ UNCHANGED bfOthers

\* One turn of while let Some(id) = pending.pop_front() { for i in 0..4 { .. } }
BfLoop ==
    /\ bf_pc = "loop"
    /\ bf_pending # <<>>
    /\ \E p \in {PopFront(bf_pending)} :
       \E r \in {VisitChildren("V", bf_st, <<>>, p.rest, p.id, 0)} :
          /\ bf_st' = r.st
          /\ bf_pending' = r.pending
    /\ UNCHANGED <<bf_pc, bfOthers>>

\* pop_front answers None: breadth_first returns.
BfReturn ==
    /\ bf_pc = "loop"
    /\ bf_pending = <<>>
    /\ bf_pc' = "done"
    /\ UNCHANGED <<bf_st, bf_pending, bfOthers>>

InitBf ==
    /\ \E arena \in BfArenas :
       \E answers \in [1..Len(arena) -> BOOLEAN] :
          bf_st = [nodes |-> [i \in 1..Len(arena) |-> [children |-> arena[i]]],
                   answers |-> answers, log |-> <<>>, panicked |-> FALSE]
    /\ bf_pending = <<>>
    /\ bf_pc = "start"
    /\ BfOthersIdle

NextBf == BfStart \/ BfLoop \/ BfReturn

\* The caller runs breadth_first to its end.
SpecBreadthFirst == InitBf /\ [][NextBf]_vars /\ WF_vars(NextBf)

\* ================================================================ RasterCache

MaxRasters == 2

I16Min == -32768
I16Max == 32767

InI16(x) == I16Min <= x /\ x <= I16Max

\* The value an i16 operation leaves when it wraps.
I16(x) == ((x - I16Min) % 65536) + I16Min

\* a % b of Rust for b > 0: the remainder has the sign of a.
RustRem(a, b) == IF a >= 0 THEN a % b ELSE -((-a) % b)

\* mutant: rounds towards zero
RoundDownTruncating(c, rs) == [overflow |-> FALSE, value |-> c - RustRem(c, rs)]

\* c - (c % rs + rs) % rs in i16: whether an operation overflowed, and the
\* value wrapping arithmetic leaves.
RoundDown(c, rs) ==
    LET s == RustRem(c, rs) + rs
        k == c - RustRem(I16(s), rs)
    IN [overflow |-> ~InI16(s) \/ ~InI16(k), value |-> I16(k)]

\* mutant: the hole set is never consulted
HoleHitNever(holes, key) == FALSE

\* if self.holes.contains(&key) { return None; }
HoleHit(holes, key) == key \in holes

LruContains(rasters, key) == \E i \in 1..Len(rasters) : rasters[i] = key

\* LruCache::get_mut: the entry becomes the most recently used.
LruRefresh(rasters, key) ==
    IF LruContains(rasters, key)
    THEN Append(SelectSeq(rasters, LAMBDA k : k # key), key)
    ELSE rasters

\* mutant: a full cache drops the entry just inserted
LruInsertEvictNewest(rasters, cap, key) ==
    IF Len(rasters) >= cap THEN rasters ELSE Append(rasters, key)

\* LruCache::insert of an absent key: the least recently used entry goes when
\* the length exceeds the capacity.
LruInsert(rasters, cap, key) ==
    LET ins == Append(rasters, key) IN
    IF Len(ins) > cap THEN Tail(ins) ELSE ins

\* mutant: recording a hole forgets the holes recorded before
HoleReplace(holes, key) == {key}

\* self.holes.insert(key)
HoleInsert(holes, key) == holes \cup {key}

\* The keys an insert has pushed out of the cache.
Dropped(before, after) ==
    {before[i] : i \in 1..Len(before)} \ {after[i] : i \in 1..Len(after)}

\* RasterCache::get(context, latitude, longitude); loadOk is what the source
\* answers if it is asked.
Get(latitude, longitude, loadOk) ==
    /\ rc_state # "panicked"
    /\ \E kl \in {RoundDown(latitude, rc_rs)}, ko \in {RoundDown(longitude, rc_rs)} :
        LET overflow == kl.overflow \/ ko.overflow
            key      == <<kl.value, ko.value>>
            base     == [NoGet EXCEPT !.lat = latitude, !.lon = longitude,
                                      !.overflow = overflow]
        IN
        IF overflow /\ rc_checked
        THEN /\ rc_state' = "panicked"
             /\ rc_last' = [base EXCEPT !.result = "panic"]
             /\ UNCHANGED <<rc_holes, rc_rasters, rc_failed, rc_evicted>>
        ELSE
          /\ rc_state' = "returned"
          /\ LET seen == [base EXCEPT !.key = Some(key),
                                      !.wasHole = key \in rc_holes,
                                      !.wasResident = LruContains(rc_rasters, key),
                                      !.wasEvicted = key \in rc_evicted]
             IN
             IF HoleHit(rc_holes, key)
             THEN /\ rc_last' = seen
                  /\ rc_evicted' = rc_evicted \ {key}
                  /\ UNCHANGED <<rc_holes, rc_rasters, rc_failed>>
             ELSE IF LruContains(rc_rasters, key)
             THEN /\ rc_rasters' = LruRefresh(rc_rasters, key)
                  /\ rc_last' = [seen EXCEPT !.result = "raster"]
                  /\ rc_evicted' = rc_evicted \ {key}
                  /\ UNCHANGED <<rc_holes, rc_failed>>
             ELSE IF loadOk
             THEN /\ \E ins \in {LruInsert(rc_rasters, rc_size, key)} :
                       /\ rc_rasters' = LruRefresh(ins, key)
                       /\ rc_last' = [seen EXCEPT !.invoked = 1, !.loadKey = Some(key),
                                                  !.loadOk = TRUE,
                                                  !.result = IF LruContains(ins, key)
                                                             THEN "raster" ELSE "none"]
                       /\ rc_evicted' = (rc_evicted \ {key})
                                             \cup Dropped(Append(rc_rasters, key), ins)
                  /\ UNCHANGED <<rc_holes, rc_failed>>
             ELSE /\ rc_holes' = HoleInsert(rc_holes, key)
                  /\ rc_failed' = rc_failed \cup {key}
                  /\ rc_last' = [seen EXCEPT !.invoked = 1, !.loadKey = Some(key)]
                  /\ rc_evicted' = rc_evicted \ {key}
                  /\ UNCHANGED rc_rasters
    /\ UNCHANGED <<rc_size, rc_rs, rc_checked, rasterCacheOthers>>

RasterSizes == {1, 3}

\* The query points of the cache runs: negative and positive cells, two points
\* of one cell, and the corner of the i16 range.
GetInputs == {<<-4, 2>>, <<-1, -1>>, <<0, 1>>, <<2, 2>>, <<I16Min, I16Min>>}

InitRasterCache ==
    /\ \E cap \in 0..MaxRasters, rs \in RasterSizes, checked \in BOOLEAN :
          RasterCacheNew(cap, rs, checked)
    /\ RasterCacheOthersIdle

NextRasterCache ==
    \E p \in GetInputs, loadOk \in BOOLEAN : Get(p[1], p[2], loadOk)

SpecRasterCache == InitRasterCache /\ [][NextRasterCache]_vars

\* One get on a new cache, over the i16 range and the raster sizes.
WideCoords ==
    {I16Min, I16Min + 1, I16Min + 2, -181, -90, -4, -1, 0, 1, 2, 5, 90, 180,
     12767, 12768, 16383, 16384, I16Max - 1, I16Max}

WideRasterSizes == {1, 2, 3, 7, 90, 16383, 16384, 20000, I16Max}

InitRasterKey ==
    /\ \E rs \in WideRasterSizes, checked \in BOOLEAN : RasterCacheNew(1, rs, checked)
    /\ RasterCacheOthersIdle

NextRasterKey ==
    \E latitude \in WideCoords, longitude \in WideCoords, loadOk \in BOOLEAN :
        rc_state = "new" /\ Get(latitude, longitude, loadOk)

SpecRasterKey == InitRasterKey /\ [][NextRasterKey]_vars

\* ================================================================ Raster

\* Coordinates are counted in units of which CellUnits make one cell_size, so
\* that a point is dlat, dlon units north and east of the lower left corner and
\* x, y of the code are fractions over CellUnits; on such points the f64
\* arithmetic of the code is exact.
CellUnits == 2
MaxDim == 3

BandCounts == {1, 3, 4}

\* values: one distinct number per index.
RasterValues(n) == [k \in 1..n |-> 3 * k + 1]

Rasters ==
    {[width |-> w, height |-> h, bands |-> b, cell_size |-> CellUnits,
      values |-> RasterValues(w * h * b)] :
        w \in 1..MaxDim, h \in 1..MaxDim, b \in BandCounts}

\* The points queried: from one cell outside the lower left corner to one cell
\* past the largest raster.
Offsets == (0 - CellUnits)..((MaxDim + 1) * CellUnits)

MinOf(a, b) == IF a < b THEN a ELSE b

\* x = (longitude - longitude_llcorner) / cell_size, times CellUnits
QueryX(r, dlon) == dlon

\* mutant: interpolate counts rows from height, not height - 1
InterpolateYFromHeight(r, dlat) == r.height * r.cell_size - dlat

\* y = (height - 1) as f64 - (latitude - latitude_llcorner) / cell_size, times CellUnits
InterpolateY(r, dlat) == (r.height - 1) * r.cell_size - dlat

\* y = height as f64 - (latitude - latitude_llcorner) / cell_size, times CellUnits
Nearest3Y(r, dlat) == r.height * r.cell_size - dlat

\* v.floor() as usize: the cast of a negative float gives 0
FloorAsUsize(vnum, cs) == IF vnum < 0 THEN 0 ELSE vnum \div cs

\* if x < 0.0 || fx >= self.width || y < 0.0 || fy >= self.height { return None; }
OutOfRaster(r, xnum, ynum) ==
    \/ xnum < 0
    \/ FloorAsUsize(xnum, r.cell_size) >= r.width
    \/ ynum < 0
    \/ FloorAsUsize(ynum, r.cell_size) >= r.height

\* mutant: the neighbour index is not clamped to the last row or column
NextIndexUnclamped(f, n) == f + 1

\* (f + 1).min(n - 1)
NextIndex(f, n) == MinOf(f + 1, n - 1)

\* (cx + cy * self.width) * self.bands + band
ValueIndex(r, cx, cy, band) == (cx + cy * r.width) * r.bands + band

\* Raster::interpolate(latitude, longitude, band) with band < bands
InterpolateResult(r, dlat, dlon, band) ==
    LET cs   == r.cell_size
        xnum == QueryX(r, dlon)
        ynum == InterpolateY(r, dlat)
        fx   == FloorAsUsize(xnum, cs)
        fy   == FloorAsUsize(ynum, cs)
        fx_1 == NextIndex(fx, r.width)
        fy_1 == NextIndex(fy, r.height)
        i00  == ValueIndex(r, fx, fy, band)
        i10  == ValueIndex(r, fx_1, fy, band)
        i01  == ValueIndex(r, fx, fy_1, band)
        i11  == ValueIndex(r, fx_1, fy_1, band)
        q    == [NoQuery EXCEPT !.op = "interpolate", !.dlat = dlat, !.dlon = dlon,
                                !.band = band]
    IN
    IF OutOfRaster(r, xnum, ynum) THEN q
    ELSE IF \E i \in {i00, i10, i01, i11} : i >= Len(r.values)
    THEN [q EXCEPT !.kind = "panic", !.reads = {i00, i10, i01, i11}]
    ELSE LET h00 == r.values[i00 + 1]
             h10 == r.values[i10 + 1]
             h01 == r.values[i01 + 1]
             h11 == r.values[i11 + 1]
             a   == ynum % cs
             b   == xnum % cs
             h0  == h00 * cs + (h01 - h00) * a
             h1  == h10 * cs + (h11 - h10) * a
         IN [q EXCEPT !.kind = "some", !.reads = {i00, i10, i01, i11},
                      !.num = h0 * cs + (h1 - h0) * b, !.den = cs * cs]

\* Raster::nearest3(latitude, longitude)
Nearest3Result(r, dlat, dlon) ==
    LET cs   == r.cell_size
        xnum == QueryX(r, dlon)
        ynum == Nearest3Y(r, dlat)
        fx   == FloorAsUsize(xnum, cs)
        fy   == FloorAsUsize(ynum, cs)
        base == ValueIndex(r, fx, fy, 0)
        q    == [NoQuery EXCEPT !.op = "nearest3", !.dlat = dlat, !.dlon = dlon]
    IN
    IF r.bands < 3 THEN [q EXCEPT !.kind = "panic"]
    ELSE IF OutOfRaster(r, xnum, ynum) THEN q
    ELSE IF base + 3 > Len(r.values)
    THEN [q EXCEPT !.kind = "panic", !.reads = {base, base + 1, base + 2}]
    ELSE [q EXCEPT !.kind = "some", !.reads = {base, base + 1, base + 2},
                   !.vals = <<r.values[base + 1], r.values[base + 2], r.values[base + 3]>>]

\* One query is made on each raster: queries leave the raster as it is.
Interpolate(dlat, dlon, band) ==
    /\ rq.op = "none"
    /\ band < raster.bands
    /\ rq' = InterpolateResult(raster, dlat, dlon, band)
    /\ UNCHANGED <<raster, rasterOthers>>

Nearest3(dlat, dlon) ==
    /\ rq.op = "none"
    /\ rq' = Nearest3Result(raster, dlat, dlon)
    /\ UNCHANGED <<raster, rasterOthers>>

InitRaster ==
    /\ raster \in Rasters
    /\ rq = NoQuery
    /\ RasterOthersIdle

NextRaster ==
    \/ \E dlat \in Offsets, dlon \in Offsets, band \in 0..3 : Interpolate(dlat, dlon, band)
    \/ \E dlat \in Offsets, dlon \in Offsets : Nearest3(dlat, dlon)

SpecRaster == InitRaster /\ [][NextRaster]_vars

\* ================================================================ DigitalElevationModelCache

\* Latitudes and longitudes are counted in units of which CellUnits make one
\* arcsecond, the cell size of the SRTM data.
ArcsecondsPerDegree == 3600
SrtmResolution == 3601
DegUnits == ArcsecondsPerDegree * CellUnits

\* What the download of a cell's archive can hand to parse, and "unfetched"
\* for a download that fails. The well-formed NED archives differ in the grid
\* their header declares.
NedPayloads ==
    {"ned_cell", "ned_margin", "ned_small",
     "not_zip", "missing_field", "unparsable_field", "flt_wrong_length",
     "unknown_byteorder", "two_hdr"}

SrtmPayloads == {"srtm_ok", "not_zip", "hgt_wrong_size", "no_hgt", "two_hgt"}

Payloads(source) ==
    {"unfetched"} \cup (IF source = "Srtm30m" THEN SrtmPayloads ELSE NedPayloads)

\* The grid a well-formed NED header declares for the cell of key: the cell
\* with its closing row and column, the cell with a margin of six posts on
\* every side, or a grid of two posts.
NedGrid(key, payload) ==
    IF payload = "ned_cell"
    THEN [width |-> SrtmResolution, height |-> SrtmResolution, cell_size |-> CellUnits,
          xllcorner |-> key[1] * DegUnits, yllcorner |-> key[2] * DegUnits]
    ELSE IF payload = "ned_margin"
    THEN [width |-> SrtmResolution + 12, height |-> SrtmResolution + 12,
          cell_size |-> CellUnits,
          xllcorner |-> key[1] * DegUnits - 6 * CellUnits,
          yllcorner |-> key[2] * DegUnits - 6 * CellUnits]
    ELSE [width |-> 2, height |-> 2, cell_size |-> CellUnits,
          xllcorner |-> key[1] * DegUnits, yllcorner |-> key[2] * DegUnits]

\* DigitalElevationModel::from_ned_zip: Ok with the grid, Err, or a panic.
FromNedZip(key, payload) ==
    IF payload = "not_zip" THEN [kind |-> "err"]
    ELSE IF payload = "two_hdr" THEN [kind |-> "panic"]
    ELSE IF payload = "unknown_byteorder" THEN [kind |-> "panic"]
    ELSE IF payload \in {"missing_field", "unparsable_field"} THEN [kind |-> "err"]
    ELSE IF payload = "flt_wrong_length" THEN [kind |-> "err"]
    ELSE [kind |-> "ok", dem |-> NedGrid(key, payload)]

\* DigitalElevationModel::from_srtm1_zip(latitude, longitude, data)
FromSrtm1Zip(key, payload) ==
    IF payload = "not_zip" THEN [kind |-> "err"]
    ELSE IF payload = "two_hgt" THEN [kind |-> "panic"]
    ELSE IF payload \in {"hgt_wrong_size", "no_hgt"} THEN [kind |-> "panic"]
    ELSE [kind |-> "ok",
          dem |-> [width |-> SrtmResolution, height |-> SrtmResolution,
                   cell_size |-> CellUnits,
                   xllcorner |-> key[1] * DegUnits, yllcorner |-> key[2] * DegUnits]]

\* DigitalElevationModelParams::parse
DemParse(source, key, payload) ==
    IF source = "Srtm30m" THEN FromSrtm1Zip(key, payload) ELSE FromNedZip(key, payload)

\* DigitalElevationModelParams { .. }.load(): the download, then parse.
DemLoad(source, key, payload) ==
    IF payload = "unfetched" THEN [kind |-> "err"] ELSE DemParse(source, key, payload)

\* DigitalElevationModel::get_elevation answers Some.
DemCovers(dem, lat, lon) ==
    LET xnum == lat - dem.xllcorner
        ynum == (dem.height - 1) * dem.cell_size - (lon - dem.yllcorner)
    IN ~(\/ xnum < 0
         \/ FloorAsUsize(xnum, dem.cell_size) >= dem.width - 1
         \/ ynum < 0
         \/ FloorAsUsize(ynum, dem.cell_size) >= dem.height - 1)

DemEntry(dems, key) == CHOOSE i \in 1..Len(dems) : dems[i].key = key

\* DigitalElevationModelCache::get_elevation(latitude, longitude); payload is
\* what the download of the cell yields if the cell is loaded.
GetElevation(lat, lon, payload) ==
    /\ dem_state # "panicked"
    /\ LET key  == <<lat \div DegUnits, lon \div DegUnits>>
           base == [NoElevation EXCEPT !.lat = lat, !.lon = lon, !.key = key]
       IN
       IF key \in dem_holes
       THEN /\ dem_last' = base
            /\ dem_state' = "returned"
            /\ UNCHANGED <<dem_holes, dem_dems>>
       ELSE IF \E i \in 1..Len(dem_dems) : dem_dems[i].key = key
       THEN \E i \in {DemEntry(dem_dems, key)} :
            /\ dem_dems' = Append(SeqWithout(dem_dems, dem_dems[i]), dem_dems[i])
            /\ dem_last' = [base EXCEPT !.covered = DemCovers(dem_dems[i].dem, lat, lon),
                                        !.result = IF DemCovers(dem_dems[i].dem, lat, lon)
                                                   THEN "some" ELSE "none"]
            /\ dem_state' = "returned"
            /\ UNCHANGED dem_holes
       ELSE \E l \in {DemLoad(dem_source, key, payload)} :
            LET seen == [base EXCEPT !.loaded = TRUE, !.payload = payload,
                                     !.parsed = (l.kind = "ok")]
            IN
            IF l.kind = "panic"
            THEN /\ dem_last' = [seen EXCEPT !.result = "panic"]
                 /\ dem_state' = "panicked"
                 /\ UNCHANGED <<dem_holes, dem_dems>>
            ELSE IF l.kind = "err"
            THEN /\ dem_holes' = dem_holes \cup {key}
                 /\ dem_last' = seen
                 /\ dem_state' = "returned"
                 /\ UNCHANGED dem_dems
            ELSE IF ~DemCovers(l.dem, lat, lon)
            THEN /\ dem_last' = [seen EXCEPT !.result = "panic"]
                 /\ dem_state' = "panicked"
                 /\ UNCHANGED <<dem_holes, dem_dems>>
            ELSE /\ dem_dems' = LruInsert(dem_dems, dem_size, [key |-> key, dem |-> l.dem])
                 /\ dem_last' = [seen EXCEPT !.covered = TRUE, !.result = "some"]
                 /\ dem_state' = "returned"
                 /\ UNCHANGED dem_holes
    /\ UNCHANGED <<dem_source, dem_size, demOthers>>

DemSources == {"Usgs30m", "Srtm30m"}
MaxDems == 2

\* The points queried, in two cells: latitudes on the southern edge and just
\* short of the next cell, longitudes on the western edge, just inside it and
\* just short of the next cell.
DemLatitudes == {c * DegUnits + o : c \in {-1, 0}, o \in {0, DegUnits - 1}}
DemLongitudes == {0, 1, DegUnits - 1}

InitDem ==
    /\ \E source \in DemSources, cap \in 1..MaxDems : DemCacheNew(source, cap)
    /\ DemOthersIdle

NextDem ==
    \E lat \in DemLatitudes, lon \in DemLongitudes, payload \in Payloads(dem_source) :
        GetElevation(lat, lon, payload)

SpecDem == InitDem /\ [][NextDem]_vars

\* ================================================================ Graph::from_file

NodeNames == {"a", "b", "c"}

\* The names an input can give as its parent: the nodes and a name no node has.
ParentNames == NodeNames \cup {"x"}

Urls == {"u1", "u2"}

\* config.shaders: shader name -> source text
Shaders == [n \in {"sh"} |-> "main0"]

\* The shader names a node can give: one of the table and one that is not in it.
ShaderRefs == DOMAIN Shaders \cup {"nosuch"}

\* OutputKind as the match of lines 333-347 sees it: the three kinds it names
\* and "Other" for any kind it leaves to the wildcard arm.
OutputKinds == {"HeightMap", "NormalMap", "AlbedoMap", "Other"}

Resolutions == {1, 2}

\* The inputs of a Generated node: input name -> parent node name, as pairs.
InputMaps ==
    {{}} \cup {{<<"s0", p>>} : p \in ParentNames}
         \cup {{<<"s0", p>>, <<"s1", q>>} : p \in ParentNames, q \in ParentNames}

DatasetNodes ==
    {[kind |-> "Dataset", url |-> u, inputs |-> {}, shader |-> "", output |-> "",
      resolution |-> 1] : u \in Urls}
GeneratedNodes ==
    {[kind |-> "Generated", url |-> "", inputs |-> i, shader |-> "sh",
      output |-> "HeightMap", resolution |-> 1] : i \in InputMaps}

\* Generated nodes with at most one input, over the shader they name, their
\* output kind and their resolution.
SingleInputMaps == {{}} \cup {{<<"s0", p>>} : p \in {"a", "b", "x"}}
ShaderNodes ==
    {[kind |-> "Generated", url |-> "", inputs |-> i, shader |-> s,
      output |-> "HeightMap", resolution |-> 1] : i \in SingleInputMaps, s \in ShaderRefs}
KindNodes ==
    {[kind |-> "Generated", url |-> "", inputs |-> i, shader |-> "sh",
      output |-> o, resolution |-> 1] : i \in SingleInputMaps \ {{<<"s0", "x">>}},
                                        o \in OutputKinds}
SizedNodes ==
    {[kind |-> "Generated", url |-> "", inputs |-> i, shader |-> "sh",
      output |-> "HeightMap", resolution |-> r] : i \in SingleInputMaps, r \in Resolutions}
OneDataset ==
    {[kind |-> "Dataset", url |-> "u1", inputs |-> {}, shader |-> "", output |-> "",
      resolution |-> 1]}

\* inputs.values()
ParentsOf(cfg, name) == {i[2] : i \in cfg[name].inputs}

\* None => bail!("node.{} not found", parent)
DanglingParent(cfg) == \E name \in NodeNames : ~(ParentsOf(cfg, name) \subseteq NodeNames)

SeqRangeOf(q) == {q[i] : i \in 1..Len(q)}

\* mutant: Topo yields a node whether or not its parents have been yielded
TopoReadyAlways(parents, visited) == TRUE

\* Topo: a node is pushed once all the nodes with an edge into it are visited.
TopoReady(parents, visited) == parents \subseteq visited

\* The orders Topo::new(&g).iter(&g) can collect, continuing prefix: every node
\* after all of its parents, the nodes on or behind a cycle left out.
RECURSIVE TopoOrders(_, _)
TopoOrders(cfg, prefix) ==
    LET ready == {n \in NodeNames \ SeqRangeOf(prefix) :
                     TopoReady(ParentsOf(cfg, n), SeqRangeOf(prefix))}
    IN IF ready = {} THEN {prefix}
       ELSE UNION {TopoOrders(cfg, Append(prefix, n)) : n \in ready}

\* LayerId(Sha256::digest(bincode::serialize(&desc))): the digest stands for
\* the descriptor it is taken of.
LayerIdOf(desc) == desc

\* format.bytes_per_pixel(): R32F and Rgba8 both take four bytes.
BytesPerPixel == 4

\* (resolution * resolution * format.bytes_per_pixel()) as u64
SectorBytes(node) == node.resolution * node.resolution * BytesPerPixel

\* mutant: the parents of a LayerDesc without their layer ids
ParentEntryNameOnly(p, ids) == [name |-> p, id |-> ""]

\* parents.insert(input.to_owned(), id): the entry of parent node p
ParentEntry(p, ids) == [name |-> p, id |-> ids[p]]

\* The descriptor hashed for a node, with the layer ids computed so far:
\* DatasetDesc by its url, LayerDesc by its parents, resolution, sector_bytes
\* and shader source.
DescOf(cfg, name, ids) ==
    IF cfg[name].kind = "Dataset"
    THEN [kind |-> "Dataset", url |-> cfg[name].url, parents |-> {}]
    ELSE [kind |-> "Generated", url |-> "",
          parents |-> {ParentEntry(p, ids) : p \in ParentsOf(cfg, name)},
          resolution |-> cfg[name].resolution,
          sector_bytes |-> SectorBytes(cfg[name]),
          shader |-> Shaders[cfg[name].shader]]

\* What can fail under from_file: the file-system operations it makes, by the
\* call that makes them, and the shader compiler and the device.
DatasetOps == {"create_cache_directory", "write_dataset_header"}
GeneratedOps == {"place_cache_file", "write_header", "open", "seek", "write_all", "map_mut"}
FsOps == DatasetOps \cup GeneratedOps
Failures == {"none", "device"} \cup FsOps

\* The operations whose failure from_file hands to `?`.
Propagated == (FsOps \ {"write_header"}) \cup {"device"}

\* for name in &order { .. }: the ids of the layers from position k on, given
\* those computed before; layer_ids[input] panics on a name that has no id yet,
\* a shader the table does not hold and a failed operation end the call.
RECURSIVE HashLayers(_, _, _, _, _, _)
HashLayers(cfg, order, k, ids, known, fail) ==
    IF k > Len(order)
    THEN [status |-> "ok", failed |-> "", layer_ids |-> ids, known |-> known]
    ELSE LET name == order[k]
             next == HashLayers(cfg, order, k + 1,
                                (name :> LayerIdOf(DescOf(cfg, name, ids))) @@ ids,
                                (name :> DOMAIN ids) @@ known, fail)
         IN
         IF cfg[name].kind = "Dataset"
         THEN IF fail \in DatasetOps \cup {"device"}
              THEN [status |-> "err", failed |-> fail, layer_ids |-> ids, known |-> known]
              ELSE next
         ELSE IF ~(ParentsOf(cfg, name) \subseteq DOMAIN ids)
         THEN [status |-> "panic", failed |-> "", layer_ids |-> ids, known |-> known]
         ELSE IF cfg[name].shader \notin DOMAIN Shaders
         THEN [status |-> "err", failed |-> "shader", layer_ids |-> ids, known |-> known]
         ELSE next

Reverse(q) == [i \in 1..Len(q) |-> q[Len(q) + 1 - i]]

\* mutant: the priority lists filled walking order front to back
PriorityWalkForward(order) == order

\* for name in order.iter().rev()
PriorityWalk(order) == Reverse(order)

LayerTypes == {"Heightmap", "Normalmap", "Albedo"}

\* let ty = match config.nodes[name] { .. }; "" is the arm that continues
LayerTypeOf(node) ==
    IF node.kind # "Generated" THEN ""
    ELSE CASE node.output = "HeightMap" -> "Heightmap"
           [] node.output = "NormalMap" -> "Heightmap"
           [] node.output = "AlbedoMap" -> "Albedo"
           [] OTHER -> ""

RECURSIVE Pushed(_, _, _, _)
\* The names pushed onto the list of ty walking from position k on.
Pushed(cfg, walk, k, ty) ==
    IF k > Len(walk) THEN <<>>
    ELSE (IF LayerTypeOf(cfg[walk[k]]) = ty THEN <<walk[k]>> ELSE <<>>)
         \o Pushed(cfg, walk, k + 1, ty)

\* priorities, by the node each entry was pushed for
PriorityNodes(cfg, order) ==
    [ty \in LayerTypes |-> Pushed(cfg, PriorityWalk(order), 1, ty)]

\* desc.sector_bytes * config.side_length_sectors * config.side_length_sectors
TargetSize(node, side) == SectorBytes(node) * side * side

\* file.seek(SeekFrom::Start(target_size)); file.write_all(&[0u8]): the length
\* of a data file that was created empty.
DataFileLength(target_size) == target_size + 1

\* for (name, desc) in layer_descriptors { .. }: the layers of the Generated
\* nodes of order, with the data files they leave in the cache directory.
Materialize(cfg, order, ids, side, fail) ==
    LET generated == {n \in SeqRangeOf(order) : cfg[n].kind = "Generated"}
        datasets == {n \in SeqRangeOf(order) : cfg[n].kind = "Dataset"}
    IN IF fail = "device" \/ (generated # {} /\ fail \in GeneratedOps \cap Propagated)
       THEN [status |-> "err", failed |-> fail]
       ELSE [status |-> "ok",
             failed |-> IF generated # {} /\ fail \in GeneratedOps THEN fail ELSE "",
             generated_layers |-> {ids[n] : n \in generated},
             dataset_layers |-> {ids[n] : n \in datasets},
             data_files |-> {[id |-> ids[n],
                              len |-> DataFileLength(TargetSize(cfg[n], side))] :
                                 n \in generated}]

\* Graph::from_file; fail is the operation that fails whenever it is made,
\* "none" if all of them succeed.
FromFile(fail) ==
    /\ g_result.status = "none"
    /\ IF DanglingParent(g_config)
       THEN g_result' = [NoGraph EXCEPT !.status = "err", !.failed = "parent"]
       ELSE \E order \in TopoOrders(g_config, <<>>) :
            \E h \in {HashLayers(g_config, order, 1, <<>>, <<>>, fail)} :
               IF h.status = "panic"
               THEN g_result' = [NoGraph EXCEPT !.status = "panic", !.order = order]
               ELSE IF h.status = "err"
               THEN g_result' = [NoGraph EXCEPT !.status = "err", !.failed = h.failed]
               ELSE \E m \in {Materialize(g_config, order, h.layer_ids, g_side, fail)} :
                    \E pr \in {PriorityNodes(g_config, order)} :
                    IF m.status = "err"
                    THEN g_result' = [NoGraph EXCEPT !.status = "err", !.failed = m.failed]
                    ELSE g_result' =
                      [status |-> "ok", failed |-> m.failed, order |-> order,
                       order_ids |-> [i \in 1..Len(order) |-> h.layer_ids[order[i]]],
                       layer_ids |-> h.layer_ids, known |-> h.known,
                       priority_nodes |-> pr,
                       priorities |->
                           [ty \in LayerTypes |->
                               [i \in 1..Len(pr[ty]) |-> h.layer_ids[pr[ty][i]]]],
                       generated_layers |-> m.generated_layers,
                       dataset_layers |-> m.dataset_layers,
                       data_files |-> m.data_files]
    /\ UNCHANGED <<g_config, g_side, graphOthers>>

InitGraph ==
    /\ g_config \in [NodeNames -> DatasetNodes \cup GeneratedNodes]
    /\ g_side = 1
    /\ g_result = NoGraph
    /\ GraphOthersIdle

NextGraph == \E fail \in {"none", "device"} : FromFile(fail)

SpecGraph == InitGraph /\ [][NextGraph]_vars

MaxSide == 2

\* Graph files whose nodes differ in the shader they name, in their output kind
\* or in their resolution, built under every operation that can fail.
InitGraphBuild ==
    /\ \/ g_config \in [NodeNames -> OneDataset \cup ShaderNodes] /\ g_side = 1
       \/ g_config \in [NodeNames -> OneDataset \cup KindNodes] /\ g_side = 1
       \/ g_config \in [NodeNames -> OneDataset \cup SizedNodes] /\ g_side \in 1..MaxSide
    /\ g_result = NoGraph
    /\ GraphOthersIdle

NextGraphBuild == \E fail \in Failures : FromFile(fail)

SpecGraphBuild == InitGraphBuild /\ [][NextGraphBuild]_vars

\* ================================================================ Layer::compute_sector_index

\* Sector(i32, i32) and the u64 index, twice as wide, are kept at SectorBits and
\* 2 * SectorBits bits, so that every sector of the type can be enumerated.
SectorBits == 4
SectorMin == -(2 ^ (SectorBits - 1))
SectorMax == 2 ^ (SectorBits - 1) - 1
IndexMax == 2 ^ (2 * SectorBits) - 1

SectorCoords == SectorMin..SectorMax
Sectors == SectorCoords \X SectorCoords

\* A signed result brought back into the coordinate type, as a build without
\* overflow checks leaves it.
WrapCoord(v) == ((v - SectorMin) % (2 ^ SectorBits)) + SectorMin

\* if v >= 0 { v } else { -v - 1 } as u64: the value, and whether the signed
\* negation overflowed
Magnitude(v) ==
    IF v >= 0 THEN [overflow |-> FALSE, value |-> v]
    ELSE [overflow |-> -v > SectorMax, value |-> WrapCoord(WrapCoord(-v) - 1)]

\* let q = match (sector.0 >= 0, sector.1 >= 0) { .. }
Quadrant(sector) ==
    CASE sector[1] >= 0 /\ sector[2] >= 0 -> 0
      [] sector[1] < 0 /\ sector[2] >= 0 -> 1
      [] sector[1] >= 0 /\ sector[2] < 0 -> 2
      [] OTHER -> 3

\* mutant: the cells numbered row by row
SpiralCellRowMajor(ax, ay) == ay * (SectorMax + 1) + ax

\* if ax > ay { ax * ax + 2 * ay + 1 } else { ay * ay + 2 * ax }
SpiralCell(ax, ay) == IF ax > ay THEN ax * ax + 2 * ay + 1 ELSE ay * ay + 2 * ax

\* Layer::compute_sector_index(sector) in a build that panics on overflow
\* (checked) or wraps
compute_sector_index(sector, checked) ==
    LET ax == Magnitude(sector[1])
        ay == Magnitude(sector[2])
        raw == SpiralCell(ax.value, ay.value) * 4 + Quadrant(sector)
    IN IF checked /\ (ax.overflow \/ ay.overflow \/ raw > IndexMax)
       THEN [status |-> "panicked", index |-> 0]
       ELSE [status |-> "returned", index |-> raw % (IndexMax + 1)]

ComputeSectorIndex(sector) ==
    /\ sec_last.op = "none"
    /\ \E out \in {compute_sector_index(sector, sec_checked)} :
          sec_last' = [op |-> "compute_sector_index", sector |-> sector,
                       status |-> out.status, index |-> out.index]
    /\ UNCHANGED <<sec_checked, sec_bytes, sec_side, sectorOthers>>

InitSector ==
    /\ sec_checked \in BOOLEAN
    /\ sec_last = NoIndex
    /\ sec_bytes = 1
    /\ sec_side = 2
    /\ SectorOthersIdle

NextSector == \E sector \in Sectors : ComputeSectorIndex(sector)

SpecSector == InitSector /\ [][NextSector]_vars

\* mutant: the offset taken as the sum of sector_bytes and the index
OffsetSum(bytes, index) == bytes + index

\* self.desc.sector_bytes * Self::compute_sector_index(sector)
OffsetProduct(bytes, index) == bytes * index

\* Layer::compute_sector_offset(sector) of a layer with the given sector_bytes,
\* in a build that panics on overflow (checked) or wraps
compute_sector_offset(sector, bytes, checked) ==
    LET i == compute_sector_index(sector, checked)
        raw == OffsetProduct(bytes, i.index)
    IN IF i.status = "panicked" \/ (checked /\ raw > IndexMax)
       THEN [status |-> "panicked", index |-> i.index, offset |-> 0]
       ELSE [status |-> "returned", index |-> i.index, offset |-> raw % (IndexMax + 1)]

ComputeSectorOffset(sector) ==
    /\ sec_last.op = "none"
    /\ \E out \in {compute_sector_offset(sector, sec_bytes, sec_checked)} :
          sec_last' = [op |-> "compute_sector_offset", sector |-> sector,
                       status |-> out.status, index |-> out.index, offset |-> out.offset]
    /\ UNCHANGED <<sec_checked, sec_bytes, sec_side, sectorOthers>>

\* The sector sizes and the even side lengths of the layers: small ones, and
\* side lengths up to the widest the coordinate type can address.
MaxSectorBytes == 6
SectorBytesRange == 1..MaxSectorBytes
SideLengths == {2, 4, 2 ^ (SectorBits - 1), 2 ^ SectorBits}

InitSectorOffset ==
    /\ sec_checked \in BOOLEAN
    /\ sec_last = NoIndex
    /\ sec_bytes \in SectorBytesRange
    /\ sec_side \in SideLengths
    /\ SectorOthersIdle

NextSectorOffset == \E sector \in Sectors : ComputeSectorOffset(sector)

SpecSectorOffset == InitSectorOffset /\ [][NextSectorOffset]_vars

\* ================================================================ claims
\* ---------------------------------------------------------------- TileCache

\* C1: starting from an empty TileCache of capacity N >= 1, after any sequence
\* of insert calls the number of resident keys (entries of sector_indices) and
\* the number of slots (length of contents) never exceed N.
C1_CapacityInvariant ==
    /\ size >= 1
    /\ Cardinality(LhmKeys(sector_indices)) <= size
    /\ Len(sector_indices) <= size
    /\ Len(contents) <= size

\* C1 witness: a key was admitted into a full cache and the cache is full again.
C1_FullAfterEviction ==
    /\ lastOp.op = "insert" /\ ~lastOp.hit /\ lastOp.evicted # None
    /\ Len(sector_indices) = size /\ Len(contents) = size

\* C2 (as claimed): whenever a key that is not resident is admitted into a full
\* cache, exactly one key is evicted and it is the least-recently-touched
\* resident key, admissions and re-requests both counting as touches.
C2_EvictsLeastRecentlyTouched ==
    [][ (lastOp'.op = "insert" /\ ~lastOp'.hit /\ Len(sector_indices) = size)
        => /\ lastOp'.evicted = Some(Head(recency))
           /\ LhmKeys(sector_indices') =
                (LhmKeys(sector_indices) \ {Head(recency)}) \cup {lastOp'.key} ]_vars

\* C3: sector_indices maps distinct resident keys to distinct slot indices,
\* every mapped index is below contents.len(), contents[i] holds exactly the
\* key that maps to i, and there is no slot without a live key.
C3_SlotKeyConsistency ==
    /\ \A i, j \in 1..Len(sector_indices) :
          i # j => /\ sector_indices[i][1] # sector_indices[j][1]
                   /\ sector_indices[i][2] # sector_indices[j][2]
    /\ \A i \in 1..Len(sector_indices) :
          /\ sector_indices[i][2] \in 0..(Len(contents) - 1)
          /\ contents[sector_indices[i][2] + 1][1] = sector_indices[i][1]
    /\ \A s \in 0..(Len(contents) - 1) :
          \E i \in 1..Len(sector_indices) : sector_indices[i][2] = s

\* C3 witness: a slot of a cache with several slots was reused by an eviction.
C3_SlotReused ==
    /\ lastOp.op = "insert" /\ lastOp.evicted # None
    /\ Len(contents) >= 2

\* C4: insert with a key that is already resident returns that key's existing
\* slot, starts no upload, and leaves the key-to-slot mapping, the slot
\* contents and every slot's fence unchanged; two calls in a row with the same
\* key return the same slot.
C4_InsertIdempotent ==
    [][ /\ (lastOp'.op = "insert" /\ lastOp'.key \in LhmKeys(sector_indices))
           => /\ <<lastOp'.key, lastOp'.index>> \in SeqRange(sector_indices)
              /\ ~lastOp'.uploaded
              /\ inflight' = inflight
              /\ SeqRange(sector_indices') = SeqRange(sector_indices)
              /\ contents' = contents
        /\ (lastOp.op = "insert" /\ lastOp'.op = "insert" /\ lastOp'.key = lastOp.key)
           => lastOp'.index = lastOp.index ]_vars

\* C4 witness: a resident key of a cache with several slots was requested again.
C4_ResidentKeyRequested ==
    /\ lastOp.op = "insert" /\ lastOp.hit
    /\ Len(contents) >= 2

\* C6 (as claimed): the fence of a slot whose upload the device has not
\* completed reports not-done, so a key is never ready before its upload is.
C6_FillingUntilUploadCompletes ==
    \A i \in inflight :
        i < Len(contents) => ~FenceIsNone(FenceAfterPoll(contents[i + 1][2], "unsignalled"))

\* ---------------------------------------------------------------- Fence

\* C5: for any sequence of device fence statuses, once is_done has returned
\* true it returns true on every later poll; the change from filling to ready
\* happens at most once.
C5_FenceMonotone ==
    /\ \A i, j \in 1..Len(fenceLog) : (i < j /\ fenceLog[i].done) => fenceLog[j].done
    /\ Cardinality({i \in 2..Len(fenceLog) :
                       ~fenceLog[i - 1].done /\ fenceLog[i].done}) <= 1

\* C5 witness: a fence that was filling became ready and was then polled while
\* the device reported it unsignalled or failed to report.
C5_PolledAfterReady ==
    \E i, j \in 1..Len(fenceLog) :
        /\ i < j
        /\ ~fenceLog[i].done
        /\ fenceLog[j].done
        /\ j < Len(fenceLog)
        /\ fenceLog[Len(fenceLog)].status # "signalled"

\* ---------------------------------------------------------------- QuadTree

\* The children of a node that exist, the parent of a node, its depth.
ChildrenOf(ns, id) == {ns[id + 1].children[k][1] : k \in {j \in 1..4 : ns[id + 1].children[j] # None}}
ParentOf(ns, id) == CHOOSE p \in NodeIds(ns) : id \in ChildrenOf(ns, p)
RECURSIVE Depth(_, _)
Depth(ns, id) == IF id = Root THEN 0 ELSE 1 + Depth(ns, ParentOf(ns, id))

Visited == SeqRange(visitedA)

\* Every layer for which the node has a tile reports contains(node) in the
\* cache of that same layer.
ResidentByLayer(id) ==
    \A layer \in 0..(NUM_LAYERS - 1) :
        HasTile(nodes, layer, id) => id \in tile_cache_layers[layer + 1]

\* C7 (as claimed): a node evaluated in phase A is marked tentatively visible
\* iff its priority >= cutoff and, for every layer L for which it has a tile,
\* the cache of that same layer L reports contains(node).
C7_PhaseAResidencyByLayer ==
    qtState = "updated" =>
        \A id \in Visited :
            tentative[id + 1] <=> (nodes[id + 1].priority >= Cutoff /\ ResidentByLayer(id))

\* C8 (as claimed): phase A descends into the children of every visited node
\* whose priority >= cutoff, also when the node's own tiles are not resident.
C8_DescendsOnPriority ==
    qtState = "updated" =>
        \A id \in Visited :
            nodes[id + 1].priority >= Cutoff => ChildrenOf(nodes, id) \subseteq Visited

\* C8 (amended): phase A descends into the children of exactly the visited
\* nodes it has just marked tentatively visible: the root is evaluated, and
\* any other node is evaluated iff its parent was evaluated and marked
\* tentatively visible.
C8_DescendsOnTentativeVisibility ==
    qtState = "updated" =>
        /\ Root \in Visited
        /\ \A id \in NodeIds(nodes) :
              \A c \in ChildrenOf(nodes, id) :
                  c \in Visited <=> (id \in Visited /\ tentative[id + 1])

\* C8 witness: the root was descended into, and a visited node at the cutoff
\* whose tiles are not resident has a child at the cutoff that was not evaluated.
C8_ChildOfNonResidentSkipped ==
    /\ qtState = "updated"
    /\ tentative[Root + 1]
    /\ \E id \in Visited :
          /\ nodes[id + 1].priority >= Cutoff
          /\ ~tentative[id + 1]
          /\ \E c \in ChildrenOf(nodes, id) :
                nodes[c + 1].priority >= Cutoff /\ c \notin Visited

\* All four child slots of the node hold a child that phase A marked
\* tentatively visible (an empty slot is not covered by a visible child).
AllChildrenTentative(id) ==
    \A k \in 1..4 :
        /\ nodes[id + 1].children[k] # None
        /\ tentative[nodes[id + 1].children[k][1] + 1]

C10_RenderListExact ==
    qtState # "panicked" =>
        /\ SeqRange(visible_nodes) = {id \in NodeIds(nodes) : nodes[id + 1].visible}
        /\ \A i, j \in 1..Len(visible_nodes) :
              /\ i # j => visible_nodes[i] # visible_nodes[j]
              /\ i < j => Depth(nodes, visible_nodes[i]) <= Depth(nodes, visible_nodes[j])

\* C10 witness: an update has listed nodes of two depths while a node that is
\* tentatively visible is left out of the list.
C10_ListOfTwoDepths ==
    /\ qtState = "updated"
    /\ \E i, j \in 1..Len(visible_nodes) :
          Depth(nodes, visible_nodes[i]) < Depth(nodes, visible_nodes[j])
    /\ \E id \in NodeIds(nodes) : tentative[id + 1] /\ id \notin SeqRange(visible_nodes)

\* ---------------------------------------------------------------- cache pass

\* The node and all of its ancestors have a priority at or above the cutoff.
RECURSIVE PathAtCutoff(_)
PathAtCutoff(id) ==
    /\ nodes[id + 1].priority >= Cutoff
    /\ id # Root => PathAtCutoff(ParentOf(nodes, id))

AddMissingDue ==
    {<<layer, id>> \in (0..(NUM_LAYERS - 1)) \X NodeIds(nodes) :
        /\ PathAtCutoff(id)
        /\ HasTile(nodes, layer, id)
        /\ id \notin tile_cache_layers[layer + 1]}

\* C11: update_cache calls add_missing for a (node, layer) pair exactly when
\* the node and all its ancestors are at or above the cutoff, the node has a
\* tile for the layer and the layer's cache does not contain the node, once
\* each and with the node's priority; load_missing is called exactly once on
\* each layer cache, after every add_missing.
C11_CachePassAdmission ==
    qtState = "cached" =>
        LET n    == Len(cache_calls)
            adds == {i \in 1..n : cache_calls[i].call = "add_missing"}
        IN /\ {<<cache_calls[i].layer, cache_calls[i].id>> : i \in adds} = AddMissingDue
           /\ Cardinality(adds) = Cardinality(AddMissingDue)
           /\ \A i \in adds : cache_calls[i].priority = nodes[cache_calls[i].id + 1].priority
           /\ n = Cardinality(adds) + NUM_LAYERS
           /\ \A k \in 1..NUM_LAYERS :
                 /\ cache_calls[n - NUM_LAYERS + k].call = "load_missing"
                 /\ cache_calls[n - NUM_LAYERS + k].layer = k - 1

\* C11 witness: a cache pass asked for a tile of a node below the root and left
\* out a node at the cutoff that has a missing tile under an ancestor below it.
C11_AdmitsBelowRootSkipsUnderCutoff ==
    /\ qtState = "cached"
    /\ \E i \in 1..Len(cache_calls) :
          cache_calls[i].call = "add_missing" /\ cache_calls[i].id # Root
    /\ \E id \in NodeIds(nodes), layer \in 0..(NUM_LAYERS - 1) :
          /\ nodes[id + 1].priority >= Cutoff
          /\ ~PathAtCutoff(id)
          /\ HasTile(nodes, layer, id)
          /\ id \notin tile_cache_layers[layer + 1]

\* ---------------------------------------------------------------- RasterCache

\* rs * floor(c / rs)
FloorCell(c, rs) == rs * (c \div rs)

LastCell == <<FloorCell(rc_last.lat, rc_rs), FloorCell(rc_last.lon, rc_rs)>>

\* C12: once the load of a cell has failed, every later get of a point that
\* rounds down to that cell returns None and does not invoke the source.
C12_NegativeCache ==
    [][(/\ rc_state' = "returned"
        /\ <<FloorCell(rc_last'.lat, rc_rs), FloorCell(rc_last'.lon, rc_rs)>> \in rc_failed)
       => (rc_last'.result = "none" /\ rc_last'.invoked = 0)]_vars

\* C12 witness: a get of a point that is not the corner of its cell found the
\* cell among the failed ones.
C12_HoleHitOffCorner ==
    /\ rc_state = "returned"
    /\ rc_last.wasHole
    /\ LastCell \in rc_failed
    /\ rc_last.lat # LastCell[1]
    /\ rc_last.result = "none" /\ rc_last.invoked = 0

\* The i16 arithmetic of the rounding of c stays in range.
Fits(c, rs) ==
    /\ c >= 0 => (c % rs) + rs <= I16Max
    /\ FloorCell(c, rs) >= I16Min

\* The last get used the cell of its point as the key of the hole set and of
\* the cache and handed it to the source.
KeyUsed ==
    /\ rc_last.key = Some(LastCell)
    /\ rc_last.invoked = 1 => rc_last.loadKey = Some(LastCell)
    /\ rc_last.result = "raster" => LruContains(rc_rasters, LastCell)
    /\ (rc_last.invoked = 1 /\ ~rc_last.loadOk) => LastCell \in rc_holes

GetResultAsClaimed ==
    /\ (rc_last.wasResident \/ (rc_last.invoked = 1 /\ rc_last.loadOk))
           => rc_last.result = "raster"
    /\ rc_last.result = "none" =>
           \/ rc_last.wasHole
           \/ (rc_last.invoked = 1 /\ ~rc_last.loadOk /\ rc_last.key[1] \in rc_holes)
    /\ rc_last.invoked <= 1
    /\ rc_last.wasResident => rc_last.invoked = 0

\* C14 as stated: for every cache capacity, a get that returns gives a raster
\* whenever the cell is resident or its load succeeds in this call, gives None
\* only when the cell is already a hole or the load fails (the cell then joins
\* the holes), and invokes the source at most once and never for a resident cell.
C14_GetResult ==
    rc_state = "returned" => GetResultAsClaimed

\* C14 amended: the same for every cache capacity of at least 1.
C14_GetResultPositiveCapacity ==
    (rc_state = "returned" /\ rc_size >= 1) => GetResultAsClaimed

\* C14 witness: a successful load into a full cache of positive capacity
\* returned the raster, with a hole recorded earlier.
C14_LoadedIntoFullCache ==
    /\ rc_state = "returned"
    /\ rc_size >= 1 /\ Len(rc_rasters) = rc_size
    /\ rc_last.invoked = 1 /\ rc_last.loadOk /\ rc_last.result = "raster"
    /\ rc_holes # {}

\* ---------------------------------------------------------------- Raster

\* The last query was made at the grid point of column i and row j (counted
\* north from the lower left corner).
AtGridPoint(i, j) ==
    rq.dlon = i * raster.cell_size /\ rq.dlat = j * raster.cell_size

GridColumns == 0..(raster.width - 1)
GridRows == 0..(raster.height - 1)

\* values[(i + (height - 1 - j) * width) * bands + band]
StoredValue(i, j, band) ==
    raster.values[(i + (raster.height - 1 - j) * raster.width) * raster.bands + band + 1]

C16_Nearest3SameGrid ==
    (rq.op = "nearest3" /\ raster.bands >= 3) =>
        \A i \in GridColumns, j \in GridRows :
            AtGridPoint(i, j) =>
                /\ rq.kind = "some"
                /\ rq.vals = <<StoredValue(i, j, 0), StoredValue(i, j, 1), StoredValue(i, j, 2)>>

\* x and y as the queried operation computes them, in units.
LastX == rq.dlon
LastY ==
    (IF rq.op = "interpolate" THEN raster.height - 1 ELSE raster.height) * raster.cell_size
        - rq.dlat

LastOutside ==
    \/ LastX < 0
    \/ LastY < 0
    \/ (LastX >= 0 /\ LastX \div raster.cell_size >= raster.width)
    \/ (LastY >= 0 /\ LastY \div raster.cell_size >= raster.height)

\* C17: interpolate (band < bands) and nearest3 (bands >= 3) return None
\* whenever the computed x or y is negative or floor(x) >= width or
\* floor(y) >= height, and otherwise return a value and read only indices
\* below width*height*bands.
C17_BoundsSafe ==
    (rq.op = "interpolate" \/ (rq.op = "nearest3" /\ raster.bands >= 3)) =>
        /\ LastOutside => (rq.kind = "none" /\ rq.reads = {})
        /\ ~LastOutside =>
              /\ rq.kind = "some"
              /\ \A i \in rq.reads :
                    0 <= i /\ i < raster.width * raster.height * raster.bands

\* C17 witness: interpolate between the last two rows, past the last column,
\* read the last value of the raster.
C17_ReadsLastValue ==
    /\ rq.op = "interpolate" /\ rq.kind = "some"
    /\ raster.width >= 2 /\ raster.height >= 2
    /\ LastX > (raster.width - 1) * raster.cell_size
    /\ LastY > (raster.height - 2) * raster.cell_size
    /\ (raster.width * raster.height * raster.bands - 1) \in rq.reads

\* ---------------------------------------------------------------- DigitalElevationModelCache

MalformedPayloads ==
    {"missing_field", "unparsable_field", "flt_wrong_length", "unknown_byteorder",
     "hgt_wrong_size"}

\* C18: a get_elevation that loads a cell whose payload is malformed (a header
\* field missing or unparsable, elevation data of the wrong length, an
\* unrecognized byte order, an .hgt member of the wrong size) returns None and
\* records the cell as a hole, as for a failed fetch; it does not panic.
C18_MalformedPayloadIsHole ==
    (dem_last.loaded /\ dem_last.payload \in MalformedPayloads) =>
        /\ dem_state = "returned"
        /\ dem_last.result = "none"
        /\ dem_last.key \in dem_holes

\* C19: get_elevation does not panic after a successful load: the loaded DEM
\* is inserted, and a point it does not cover yields None on the loading call.
C19_NoPanicAfterLoad ==
    (dem_last.loaded /\ dem_last.parsed) =>
        /\ dem_state = "returned"
        /\ \E i \in 1..Len(dem_dems) : dem_dems[i].key = dem_last.key
        /\ ~dem_last.covered => dem_last.result = "none"

\* ---------------------------------------------------------------- Graph::from_file

\* C20: from_file never looks up the id of a parent that has none yet, and in
\* the graph it returns, for every Generated layer, each parent's LayerId
\* occurs in order strictly before the layer's own position and had been
\* computed when the layer's descriptor was hashed.
C20_ParentsBeforeChildren ==
    /\ g_result.status # "panic"
    /\ g_result.status = "ok" =>
          \A i \in 1..Len(g_result.order) :
              g_config[g_result.order[i]].kind = "Generated" =>
                  \A p \in ParentsOf(g_config, g_result.order[i]) :
                      /\ p \in g_result.known[g_result.order[i]]
                      /\ \E j \in 1..(i - 1) :
                            g_result.order_ids[j] = g_result.layer_ids[p]

\* C20 witness: a returned graph of three layers in which a layer has two
\* parents with different ids, one of them a Generated layer.
C20_ChainWithTwoParents ==
    /\ g_result.status = "ok"
    /\ Len(g_result.order) = 3
    /\ \E n \in NodeNames : \E p \in ParentsOf(g_config, n), q \in ParentsOf(g_config, n) :
          /\ g_config[p].kind = "Generated" /\ ParentsOf(g_config, p) # {}
          /\ g_result.layer_ids[p] # g_result.layer_ids[q]

\* ---------------------------------------------------------------- C21

\* The one-to-one renamings of the declared nodes.
Renamings == {pi \in [NodeNames -> NodeNames] : \A m, n \in NodeNames : pi[m] = pi[n] => m = n}

\* The graph file with every node n renamed pi[n], the references to it updated.
Rename(cfg, pi) ==
    [n \in NodeNames |->
        LET old == CHOOSE m \in NodeNames : pi[m] = n
        IN [cfg[old] EXCEPT !.inputs = {<<i[1], pi[i[2]]>> : i \in cfg[old].inputs}]]

\* The layer ids from_file computes for the renamed file, walking the same order.
RenamedLayerIds(cfg, order, pi) ==
    HashLayers(Rename(cfg, pi), [i \in 1..Len(order) |-> pi[order[i]]],
               1, <<>>, <<>>, "none").layer_ids

\* C21: the LayerIds of a graph do not depend on the names of its nodes: under
\* every consistent renaming of the nodes each layer keeps the id it had.
C21_LayerIdsIgnoreNodeNames ==
    g_result.status = "ok" =>
        \A pi \in Renamings :
            \A n \in DOMAIN g_result.layer_ids :
                RenamedLayerIds(g_config, g_result.order, pi)[pi[n]] = g_result.layer_ids[n]

\* ---------------------------------------------------------------- C22

\* The layer ids from_file computes for cfg walking order, nothing failing.
LayerIdsOf(cfg, order) == HashLayers(cfg, order, 1, <<>>, <<>>, "none").layer_ids

\* The graph files that differ from cfg in the descriptors of Datasets only.
DatasetVariants(cfg) ==
    {[n \in NodeNames |-> IF cfg[n].kind = "Dataset" THEN [cfg[n] EXCEPT !.url = u[n]]
                                                      ELSE cfg[n]] :
        u \in [NodeNames -> Urls]}

RECURSIVE AncestorsWithin(_, _, _)
\* The nodes reached from the nodes of set along parent references, in at most
\* k steps.
AncestorsWithin(cfg, set, k) ==
    IF k = 0 THEN set
    ELSE AncestorsWithin(cfg, set \cup UNION {ParentsOf(cfg, n) : n \in set \cap NodeNames},
                         k - 1)

\* The nodes name depends on, directly or transitively.
Ancestors(cfg, name) == AncestorsWithin(cfg, ParentsOf(cfg, name), Cardinality(NodeNames))

\* C22: the LayerIds are the same whenever the same description is built, in
\* whichever order Topo yields the nodes; between two descriptions that differ
\* in Dataset descriptors only, a layer one of whose parents has a different
\* id has a different id, so every layer that depends on a changed Dataset,
\* directly or transitively, has a different id.
C22_LayerIdsDeterministicAndPropagate ==
    g_result.status = "ok" =>
        /\ \A order \in TopoOrders(g_config, <<>>) :
               LayerIdsOf(g_config, order) = g_result.layer_ids
        /\ \A c \in DatasetVariants(g_config) :
           \A ids \in {LayerIdsOf(c, g_result.order)} :
           \A n \in DOMAIN g_result.layer_ids :
               /\ (\E p \in ParentsOf(g_config, n) : ids[p] # g_result.layer_ids[p])
                      => ids[n] # g_result.layer_ids[n]
               /\ (\E d \in Ancestors(g_config, n) \cup {n} :
                       g_config[d].kind = "Dataset" /\ c[d] # g_config[d])
                      => ids[n] # g_result.layer_ids[n]

\* A Dataset, a layer generated from it and a layer generated from that one.
C22_ChainOnDataset ==
    /\ g_result.status = "ok"
    /\ \E d, m, n \in DOMAIN g_result.layer_ids :
          /\ g_config[d].kind = "Dataset"
          /\ ParentsOf(g_config, m) = {d}
          /\ ParentsOf(g_config, n) = {m}

\* ---------------------------------------------------------------- C23

\* Some Generated node names a shader that config.shaders does not hold.
MissingShader(cfg) ==
    \E n \in NodeNames : cfg[n].kind = "Generated" /\ cfg[n].shader \notin DOMAIN Shaders

\* C23: from_file returns an error, and no Graph, whenever a Generated node
\* names a parent that is not a declared node or a shader that is not in the
\* shader table.
C23_DanglingReferencesAreFatal ==
    (g_result.status # "none" /\ (DanglingParent(g_config) \/ MissingShader(g_config)))
        => g_result.status = "err"

\* ---------------------------------------------------------------- C24

\* C24: from_file returns an error, and no Graph, whenever a file-system
\* operation it makes while materializing a layer fails.
C24_StorageFailuresAreFatal ==
    g_result.failed \in FsOps => g_result.status = "err"

\* ---------------------------------------------------------------- C25

\* Some node of the graph file depends on itself, directly or transitively.
Cyclic(cfg) == \E n \in NodeNames : n \in Ancestors(cfg, n)

\* C25: a Graph that from_file returns has one entry of order for each
\* declared node, a layer id for every declared node name, every Generated
\* node among generated_layers and every Dataset node among dataset_layers;
\* a graph file with a dependency cycle is answered with an error.
C25_NoPartialGraph ==
    /\ g_result.status = "ok" =>
          /\ Len(g_result.order_ids) = Cardinality(NodeNames)
          /\ \A n \in NodeNames : \E i \in 1..Len(g_result.order) : g_result.order[i] = n
          /\ DOMAIN g_result.layer_ids = NodeNames
          /\ \A n \in NodeNames :
                IF g_config[n].kind = "Generated"
                THEN g_result.layer_ids[n] \in g_result.generated_layers
                ELSE g_result.layer_ids[n] \in g_result.dataset_layers
    /\ (g_result.status # "none" /\ Cyclic(g_config)) => g_result.status = "err"

\* ---------------------------------------------------------------- C26

\* The priority list a node of this output kind belongs to, "" for none.
OwnLayerType(node) ==
    IF node.kind # "Generated" THEN ""
    ELSE CASE node.output = "HeightMap" -> "Heightmap"
           [] node.output = "NormalMap" -> "Normalmap"
           [] node.output = "AlbedoMap" -> "Albedo"
           [] OTHER -> ""

\* How many entries of list q were pushed for node n.
Occurrences(q, n) == Cardinality({i \in 1..Len(q) : q[i] = n})

\* C26: in a Graph that from_file returns every Generated node of kind
\* HeightMap, NormalMap or AlbedoMap has one entry in the priority list of its
\* own layer type and none in the other lists, and a Dataset node or a node of
\* another kind has an entry in no list; each entry is the node's layer id.
C26_PriorityListsByOutputKind ==
    g_result.status = "ok" =>
        \A ty \in LayerTypes :
            /\ \A n \in NodeNames :
                  Occurrences(g_result.priority_nodes[ty], n)
                      = IF OwnLayerType(g_config[n]) = ty THEN 1 ELSE 0
            /\ Len(g_result.priorities[ty]) = Len(g_result.priority_nodes[ty])
            /\ \A i \in 1..Len(g_result.priorities[ty]) :
                  g_result.priorities[ty][i]
                      = g_result.layer_ids[g_result.priority_nodes[ty][i]]

\* ---------------------------------------------------------------- C27

\* The position of node n in order.
PositionIn(order, n) == CHOOSE i \in 1..Len(order) : order[i] = n

\* C27: in every priority list of a Graph that from_file returns the layers
\* stand in the reverse of their relative position in the topological order,
\* so a layer stands before each of its direct and transitive parents that is
\* in the same list; the entries are the layer ids of those nodes.
C27_PriorityListsReverseOrder ==
    g_result.status = "ok" =>
        \A ty \in LayerTypes :
        \A pn \in {g_result.priority_nodes[ty]} :
            /\ g_result.priorities[ty] = [i \in 1..Len(pn) |-> g_result.layer_ids[pn[i]]]
            /\ \A i \in 1..Len(pn), j \in 1..Len(pn) :
                  /\ i < j => PositionIn(g_result.order, pn[i]) > PositionIn(g_result.order, pn[j])
                  /\ pn[j] \in Ancestors(g_config, pn[i]) => i < j

\* A list that holds a layer, its parent and its parent's parent.
C27_ListHoldsChain ==
    /\ g_result.status = "ok"
    /\ \E ty \in LayerTypes :
       \E pn \in {g_result.priority_nodes[ty]} :
          /\ Len(pn) = 3
          /\ pn[2] \in ParentsOf(g_config, pn[1])
          /\ pn[3] \in ParentsOf(g_config, pn[2])

\* ---------------------------------------------------------------- C28

\* C28: in a Graph that from_file returns, with no data file in the cache
\* directory before the call, the data file of every Generated layer is
\* sector_bytes * side_length_sectors * side_length_sectors bytes long.
C28_BackingFileSize ==
    g_result.status = "ok" =>
        \A n \in DOMAIN g_result.layer_ids :
            g_config[n].kind = "Generated" =>
                \E f \in g_result.data_files :
                    /\ f.id = g_result.layer_ids[n]
                    /\ f.len = SectorBytes(g_config[n]) * g_side * g_side

\* ---------------------------------------------------------------- C29

\* compute_sector_index over every sector, for either build.
IndexTable == [checked \in BOOLEAN |-> [s \in Sectors |-> compute_sector_index(s, checked)]]

\* mag(v) = v for v >= 0 and -v - 1 for v < 0
Mag(v) == IF v >= 0 THEN v ELSE -v - 1

\* ring(s) = max(mag(s.x), mag(s.y))
Ring(s) == IF Mag(s[1]) > Mag(s[2]) THEN Mag(s[1]) ELSE Mag(s[2])

\* The sectors with -(R+1) <= x <= R and -(R+1) <= y <= R.
Square(R) == (-(R + 1)..R) \X (-(R + 1)..R)

\* The indices compute_sector_index returns over a set of sectors.
IndicesOver(set, checked) ==
    {IndexTable[checked][t].index : t \in {u \in set : IndexTable[checked][u].status = "returned"}}

\* C29: over the square of sectors with -(R+1) <= x, y <= R, R the ring of the
\* sector of the call, compute_sector_index returns for every sector, returns
\* different indices for different sectors and returns every index of
\* 0..4*(R+1)*(R+1)-1; Sector(0, 0) has index 0.
C29_DenseBijection ==
    sec_last.op # "none" =>
        \A R \in {Ring(sec_last.sector)} :
            /\ sec_last.status = "returned"
            /\ \A t \in Square(R) :
                  /\ IndexTable[sec_checked][t].status = "returned"
                  /\ t # sec_last.sector => IndexTable[sec_checked][t].index # sec_last.index
            /\ IndicesOver(Square(R), sec_checked) = 0..(4 * (R + 1) * (R + 1) - 1)
            /\ sec_last.sector = <<0, 0>> => sec_last.index = 0

\* ---------------------------------------------------------------- C30

MirrorCell(x, y) == IF x > y THEN x * x + 2 * y + 1 ELSE y * y + 2 * x

\* The place of a sector among the four mirror images of (mag(x), mag(y)):
\* (x, y), (-x-1, y), (x, -y-1), (-x-1, -y-1).
MirrorPlace(sector) ==
    (IF sector[1] < 0 THEN 1 ELSE 0) + (IF sector[2] < 0 THEN 2 ELSE 0)

\* C31: for x, y >= 0 the sectors (x, y), (-x-1, y), (x, -y-1), (-x-1, -y-1)
\* receive the indices 4k, 4k+1, 4k+2, 4k+3 in that order, k = x*x + 2*y + 1
\* if x > y and y*y + 2*x otherwise; (0,0) -> 0, (1,1) -> 12, (1,2) -> 24,
\* (2,3) -> 52, (4,1) -> 76, (-3,-1) -> 23, (-3,-4) -> 55.
C31_QuadrantInLowBits ==
    /\ sec_last.op # "none" =>
          /\ sec_last.status = "returned"
          /\ sec_last.index = 4 * MirrorCell(Mag(sec_last.sector[1]), Mag(sec_last.sector[2]))
                              + MirrorPlace(sec_last.sector)
    /\ \A ref \in {<<0, 0, 0>>, <<1, 1, 12>>, <<1, 2, 24>>, <<2, 3, 52>>, <<4, 1, 76>>,
                   <<-3, -1, 23>>, <<-3, -4, 55>>} :
          sec_last.sector = <<ref[1], ref[2]>> /\ sec_last.op # "none" => sec_last.index = ref[3]

\* ---------------------------------------------------------------- C32

\* The calls of the visitor so far are as breadth_first is to make them.
BfCallsInOrder ==
    \A log \in {bf_st.log} :
        /\ bf_pc = "start" => log = <<>>
        /\ bf_pc # "start" => Len(log) >= 1 /\ log[1] = Root
        /\ \A i \in 1..Len(log), j \in 1..Len(log) :
              i < j => /\ log[i] # log[j]
                       /\ Depth(bf_st.nodes, log[i]) <= Depth(bf_st.nodes, log[j])
        /\ \A i \in 1..Len(log) :
              log[i] # Root =>
                  \E h \in 1..(i - 1) : /\ log[h] = ParentOf(bf_st.nodes, log[i])
                                        /\ bf_st.answers[log[h] + 1]
        /\ bf_pc = "done" =>
              \A n \in NodeIds(bf_st.nodes) \ {Root} :
                  (\E h \in 1..Len(log) : /\ log[h] = ParentOf(bf_st.nodes, n)
                                          /\ bf_st.answers[log[h] + 1])
                      => \E i \in 1..Len(log) : log[i] = n

\* C32: on a tree rooted at node 0 breadth_first returns for every visitor;
\* it calls the visitor on the root, on another node exactly when it was
\* called on the node's parent and returned true there, on no node twice, and
\* on a node only after the calls on all visited nodes of smaller depth.
C32_BreadthFirst == []BfCallsInOrder /\ <>(bf_pc = "done")

\* A traversal that returned after reaching the third level below the root
\* and leaving out a node whose parent's visit returned false.
C32_ReachedThirdLevel ==
    /\ bf_pc = "done"
    /\ \E i \in 1..Len(bf_st.log) : Depth(bf_st.nodes, bf_st.log[i]) = 3
    /\ \E n \in NodeIds(bf_st.nodes) :
          /\ \A i \in 1..Len(bf_st.log) : bf_st.log[i] # n
          /\ \E h \in 1..Len(bf_st.log) : bf_st.log[h] = ParentOf(bf_st.nodes, n)

\* ---------------------------------------------------------------- C33

\* The nodes without children.
Leaves(ns) == {id \in NodeIds(ns) : ChildrenOf(ns, id) = {}}

RECURSIVE PathTo(_, _)
\* The nodes of the path from the root to id.
PathTo(ns, id) == IF id = Root THEN {Root} ELSE {id} \cup PathTo(ns, ParentOf(ns, id))

\* C33: after update_visibility, if phase A marked the root tentatively visible
\* every path from the root to a leaf holds a node of the render list, and if
\* it did not the render list is empty.
C33_NoGaps ==
    qtState = "updated" =>
        IF tentative[Root + 1]
        THEN \A leaf \in Leaves(nodes) :
                PathTo(nodes, leaf) \cap SeqRange(visible_nodes) # {}
        ELSE visible_nodes = <<>>

\* The root is not listed and its leaves are covered at two depths: by a listed
\* child of the root and by a listed grandchild.
C33_CoveredAtTwoDepths ==
    /\ qtState = "updated"
    /\ tentative[Root + 1]
    /\ Root \notin SeqRange(visible_nodes)
    /\ \E i, j \in 1..Len(visible_nodes) :
          /\ Depth(nodes, visible_nodes[i]) = 1
          /\ Depth(nodes, visible_nodes[j]) = 2
          /\ visible_nodes[j] \in Leaves(nodes)

\* ---------------------------------------------------------------- C34

\* C34: after update_visibility the render list does not hold a node together
\* with one of its descendants.
C34_NoOverdraw ==
    qtState = "updated" =>
        \A i, j \in 1..Len(visible_nodes) :
            i # j => visible_nodes[i] \notin PathTo(nodes, visible_nodes[j])

\* ---------------------------------------------------------------- C35

\* compute_sector_offset over every sector, for either build and every
\* sector size.
OffsetTable ==
    [checked \in BOOLEAN |-> [b \in SectorBytesRange |->
        [s \in Sectors |-> compute_sector_offset(s, b, checked)]]]

\* The sectors (x, y) with -S/2 <= x, y <= S/2 - 1.
LayerSectors(S) == (-(S \div 2)..(S \div 2 - 1)) \X (-(S \div 2)..(S \div 2 - 1))

\* The byte range of the sector of the call ends inside the b*S*S bytes of the
\* backing file and overlaps the range of no other sector of the layer.
OwnRangeInFile ==
    /\ sec_last.status = "returned"
    /\ sec_last.offset + sec_bytes <= sec_bytes * sec_side * sec_side
    /\ \A t \in LayerSectors(sec_side) \ {sec_last.sector} :
       \A o \in {OffsetTable[sec_checked][sec_bytes][t]} :
          /\ o.status = "returned"
          /\ o.offset + sec_bytes <= sec_last.offset \/ sec_last.offset + sec_bytes <= o.offset

\* C35 (as claimed): for sector_bytes b > 0 and an even side length S every
\* sector with -S/2 <= x, y <= S/2 - 1 has compute_sector_offset + b <= b*S*S
\* and a byte range that overlaps the range of no other such sector.
C35_RangesDisjointInFile ==
    (sec_last.op # "none" /\ sec_last.sector \in LayerSectors(sec_side)) => OwnRangeInFile

\* C35 (amended): the same for the layers whose backing file size b*S*S is a
\* u64.
C35_RangesDisjointWhereSizeFits ==
    (/\ sec_last.op # "none"
     /\ sec_last.sector \in LayerSectors(sec_side)
     /\ sec_bytes * sec_side * sec_side <= IndexMax) => OwnRangeInFile

\* An offset was returned for a sector with a negative coordinate of a layer
\* of several bytes per sector and more than four sectors, whose size fits.
C35_NegativeSectorOfWideLayer ==
    /\ sec_last.op # "none"
    /\ sec_last.status = "returned"
    /\ sec_last.sector \in LayerSectors(sec_side)
    /\ sec_last.sector[1] < 0
    /\ sec_bytes > 1
    /\ sec_side > 2
    /\ sec_bytes * sec_side * sec_side <= IndexMax
    /\ sec_last.offset > 0

\* ---------------------------------------------------------------- C36

\* The keys of the resident rasters.
Resident == {rc_rasters[i] : i \in 1..Len(rc_rasters)}

\* A get on a cell that was evicted and not asked for since asks the source
\* for that cell and does not find it among the holes.
EvictedIsReloaded ==
    (rc_state = "returned" /\ rc_last.wasEvicted) =>
        /\ ~rc_last.wasHole
        /\ rc_last.invoked = 1
        /\ rc_last.loadKey = rc_last.key

\* C36: no cell is both in the hole set and in the raster cache, no get
\* removes a cell from the hole set, and the next get on a cell evicted from
\* the raster cache loads it from the source again instead of treating it as
\* a hole.
C36_HolesApartFromRasters ==
    /\ [](rc_holes \cap Resident = {})
    /\ [][rc_holes \subseteq rc_holes']_vars
    /\ []EvictedIsReloaded

\* A get has loaded an evicted cell again into a full cache, next to a
\* recorded hole, pushing out another raster.
C36_EvictedCellLoadedAgain ==
    /\ rc_state = "returned"
    /\ rc_last.wasEvicted
    /\ rc_last.invoked = 1 /\ rc_last.loadOk
    /\ rc_last.key[1] \in Resident
    /\ rc_holes # {}
    /\ rc_evicted # {}
    /\ rc_size >= 1

\* ---------------------------------------------------------------- C37

\* The graph file in which node n binds its two parents to the other slots.
SwapInputs(cfg, n) ==
    [cfg EXCEPT ![n].inputs = {<<"s0", p>> : p \in {i[2] : i \in {j \in cfg[n].inputs : j[1] = "s1"}}}
                         \cup {<<"s1", p>> : p \in {i[2] : i \in {j \in cfg[n].inputs : j[1] = "s0"}}}]

\* C37: a Generated node that binds two different parents to its slots and
\* the node with the same parameters and parents that binds them the other
\* way round ({s0: X, s1: Y} against {s0: Y, s1: X}) have different LayerIds.
C37_BindingsDistinguished ==
    g_result.status = "ok" =>
        \A n \in DOMAIN g_result.layer_ids :
            (g_config[n].kind = "Generated" /\ Cardinality(ParentsOf(g_config, n)) = 2)
                => LayerIdsOf(SwapInputs(g_config, n), g_result.order)[n] # g_result.layer_ids[n]

====
